---------------------------- MODULE Spec2Model ----------------------------
(***************************************************************************)
(* Poly-notify: the state store (src/state.py), the scan cycle and the     *)
(* trade and volume sub-cycles (src/main.py, src/watchers), the alert      *)
(* rules (src/alerts), the filters (src/filters) and the notifier          *)
(* (src/notifier.py) as a state machine.                                   *)
(*                                                                         *)
(* Representation.  A Python float that is a price is an integer number of *)
(* hundredths (0.80 is 80); a USD amount is an integer number of dollars.  *)
(* A datetime is a record [sec, usec]; Python's None is the value None     *)
(* below for a datetime and NonePrice for a price.  The text that          *)
(* datetime.isoformat() produces is a tuple: <<sec>> when the microsecond  *)
(* field is 0 (isoformat then prints no fraction), <<sec, usec>> when it   *)
(* is not; JSON null is the empty tuple.                                   *)
(***************************************************************************)
EXTENDS Integers, Sequences, FiniteSets, TLC

VARIABLES
    now,      \* the wall clock, what datetime.now(timezone.utc) returns
    pc,       \* where the process is: main()'s loop position, or "api"
    store,    \* the StateStore object of the process
    disk,     \* the state file at StateStore.path
    last,     \* what the last handler did: its inputs, messages and exit
    run       \* history of this process run, for the claims

vars == <<now, pc, store, disk, last, run>>

---------------------------------------------------------------------------
(* Bounds of the model *)

\* Last second the clock reaches (the clock moves in half seconds).
MaxClock == 1

\* Capacity of the processed-trade deque; _MAX_PROCESSED_TRADES = 50_000 in
\* src/state.py:10, scaled down.
MaxProcessedTrades == 3

\* Ceiling of the wallet table; _MAX_WALLETS = 100_000 in src/state.py:11,
\* scaled down.
MaxWallets == 2

\* Store-level calls per behaviour of SpecStore.
MaxCalls == 5

\* Snapshots one scan returns.
MaxSnapshots == 2

\* The call of notifier.send, counted within one handler, that a delivery
\* failure can hit (1 .. MaxFailAt), and the delivery failures per process run.
MaxFailAt == 2
MaxSendFailures == 1

\* Largest api.max_retries tried in the retry loops (config.yaml sets 3).
MaxRetries == 3

---------------------------------------------------------------------------
(* Values *)

None == [sec |-> 0 - 1, usec |-> 0]
NonePrice == 0 - 1
NoState == [absent |-> TRUE]

Dt(s, u) == [sec |-> s, usec |-> u]

\* datetime comparison
DtLT(a, b) == a.sec < b.sec \/ (a.sec = b.sec /\ a.usec < b.usec)
DtLE(a, b) == a = b \/ DtLT(a, b)

\* a + timedelta(microseconds = d), 0 <= d < 1000000
DtPlusUsec(a, d) ==
    IF a.usec + d >= 1000000
    THEN Dt(a.sec + 1, a.usec + d - 1000000)
    ELSE Dt(a.sec, a.usec + d)

\* a - timedelta(seconds = s)
DtMinusSec(a, s) == Dt(a.sec - s, a.usec)

Range(s) == {s[i] : i \in 1..Len(s)}

RECURSIVE SeqSum(_)
SeqSum(s) == IF s = <<>> THEN 0 ELSE Head(s) + SeqSum(Tail(s))

Outcomes == {"o1", "o2", "o3"}
OutcomeOrder == <<"o1", "o2", "o3">>
MarketOf == [o \in Outcomes |-> IF o = "o1" THEN "m1" ELSE "m2"]
\* "" is the event title of a market listed outside an event (scanner.py:167
\* turns it into None; both are falsy at main.py:114)
EventOf == [o \in Outcomes |-> IF o = "o1" THEN "" ELSE "e1"]
Prices == {50, 80, 95}

Wallets == {"w1", "w2", "w3", "w4"}
TradeIds == <<"t1", "t2", "t3", "t4", "t5", "t6">>

---------------------------------------------------------------------------
(* src/filters *)

\* bounds taken as percentages only when both are above 1
normalize_bounds_both(cfg) ==
    IF cfg.min > 100 /\ cfg.max > 100
    THEN [min |-> cfg.min \div 100, max |-> cfg.max \div 100]
    ELSE [min |-> cfg.min, max |-> cfg.max]

\* filters/probability.py: bounds above 1 (100 hundredths) are percentages
normalize_bounds(cfg) ==
    IF cfg.min > 100 \/ cfg.max > 100
    THEN [min |-> cfg.min \div 100, max |-> cfg.max \div 100]
    ELSE [min |-> cfg.min, max |-> cfg.max]

probability_passes(outcome, cfg) ==
    IF ~cfg.enabled THEN TRUE
    ELSE LET b == normalize_bounds(cfg)
         IN b.min <= outcome.price /\ outcome.price <= b.max

\* a time-to-resolution filter that lets an unknown resolution time pass
time_to_resolution_unknown_passes(outcome, cfg, t) ==
    IF ~cfg.enabled THEN TRUE
    ELSE IF outcome.resolution_time = None THEN TRUE
    ELSE /\ DtLE(Dt(t.sec + cfg.min_days * 86400, t.usec), outcome.resolution_time)
         /\ DtLE(outcome.resolution_time, Dt(t.sec + cfg.max_days * 86400, t.usec))

\* filters/time_to_resolution.py: min_days <= (resolution - now) / 86400 <= max_days
time_to_resolution_passes(outcome, cfg, t) ==
    IF ~cfg.enabled THEN TRUE
    ELSE IF outcome.resolution_time = None THEN FALSE
    ELSE /\ DtLE(Dt(t.sec + cfg.min_days * 86400, t.usec), outcome.resolution_time)
         /\ DtLE(outcome.resolution_time, Dt(t.sec + cfg.max_days * 86400, t.usec))

\* filters/liquidity.py is not among the source files: spec.md section 4.2,
\* "passes if outcome liquidity >= configured minimum"
liquidity_passes(outcome, cfg) ==
    IF ~cfg.enabled THEN TRUE ELSE outcome.liquidity >= cfg.min_usd

\* filters/volume.py
volume_passes(outcome, cfg) ==
    IF ~cfg.enabled THEN TRUE ELSE outcome.volume >= cfg.min_usd

\* main.py passes_filters: all(...) of the four
passes_filters(outcome, filters_config, t) ==
    /\ probability_passes(outcome, filters_config.probability)
    /\ time_to_resolution_passes(outcome, filters_config.time_to_resolution, t)
    /\ liquidity_passes(outcome, filters_config.liquidity)
    /\ volume_passes(outcome, filters_config.volume)

---------------------------------------------------------------------------
(* src/alerts: each rule returns a message or NoMessage *)

NoMessage == [kind |-> "none", key |-> "", ids |-> <<>>]
Message(k, key, ids) == [kind |-> k, key |-> key, ids |-> ids]

\* alerts/new_market.py
new_market_evaluate(outcome, existing_state, cfg) ==
    IF ~cfg.enabled THEN NoMessage
    ELSE IF existing_state # NoState THEN NoMessage
    ELSE Message("new_market", outcome.outcome_id, <<outcome.outcome_id>>)

Abs(x) == IF x < 0 THEN 0 - x ELSE x

\* a price spike rule that compares with a prior observation of any age
price_spike_any_age(outcome, existing_state, cfg, t) ==
    IF ~cfg.enabled THEN NoMessage
    ELSE IF existing_state = NoState THEN NoMessage
    ELSE IF existing_state.last_seen_price = NonePrice
            \/ existing_state.last_seen_timestamp = None THEN NoMessage
    ELSE IF existing_state.last_seen_price = 0 THEN NoMessage
    ELSE IF \/ /\ cfg.percent_change # 0
               /\ Abs(outcome.price - existing_state.last_seen_price) * 100
                    >= cfg.percent_change * Abs(existing_state.last_seen_price)
            \/ /\ cfg.absolute_change # NonePrice
               /\ Abs(outcome.price - existing_state.last_seen_price)
                    >= cfg.absolute_change
    THEN Message("price_spike", outcome.outcome_id, <<outcome.outcome_id>>)
    ELSE NoMessage

\* a price spike rule that wants every configured threshold met
price_spike_all_thresholds(outcome, existing_state, cfg, t) ==
    IF ~cfg.enabled THEN NoMessage
    ELSE IF existing_state = NoState THEN NoMessage
    ELSE IF existing_state.last_seen_price = NonePrice
            \/ existing_state.last_seen_timestamp = None THEN NoMessage
    ELSE IF DtLT(Dt(existing_state.last_seen_timestamp.sec + cfg.lookback_minutes * 60,
                    existing_state.last_seen_timestamp.usec), t) THEN NoMessage
    ELSE IF existing_state.last_seen_price = 0 THEN NoMessage
    ELSE IF /\ cfg.percent_change # 0 \/ cfg.absolute_change # NonePrice
            /\ cfg.percent_change # 0 =>
                  Abs(outcome.price - existing_state.last_seen_price) * 100
                    >= cfg.percent_change * Abs(existing_state.last_seen_price)
            /\ cfg.absolute_change # NonePrice =>
                  Abs(outcome.price - existing_state.last_seen_price)
                    >= cfg.absolute_change
    THEN Message("price_spike", outcome.outcome_id, <<outcome.outcome_id>>)
    ELSE NoMessage

\* alerts/price_spike.py.  age_minutes > lookback_minutes is compared in
\* microseconds; |percent_change| >= threshold is compared cross-multiplied
\* (previous_price > 0 for every price of the model).
price_spike_evaluate(outcome, existing_state, cfg, t) ==
    IF ~cfg.enabled THEN NoMessage
    ELSE IF existing_state = NoState THEN NoMessage
    ELSE IF existing_state.last_seen_price = NonePrice
            \/ existing_state.last_seen_timestamp = None THEN NoMessage
    ELSE IF DtLT(Dt(existing_state.last_seen_timestamp.sec + cfg.lookback_minutes * 60,
                    existing_state.last_seen_timestamp.usec), t) THEN NoMessage
    ELSE LET previous_price == existing_state.last_seen_price
             absolute_change == outcome.price - previous_price
             by_percent == /\ cfg.percent_change # 0
                           /\ Abs(absolute_change) * 100
                                >= cfg.percent_change * Abs(previous_price)
             by_absolute == /\ cfg.absolute_change # NonePrice
                            /\ Abs(absolute_change) >= cfg.absolute_change
         IN IF previous_price = 0 THEN NoMessage
            ELSE IF by_percent \/ by_absolute
                 THEN Message("price_spike", outcome.outcome_id, <<outcome.outcome_id>>)
                 ELSE NoMessage

\* a range entry rule that fires on entry from either side of the range
range_entry_from_outside(outcome, existing_state, cfg, probability_config) ==
    IF ~cfg.enabled THEN NoMessage
    ELSE IF existing_state = NoState THEN NoMessage
    ELSE IF existing_state.last_seen_price = NonePrice THEN NoMessage
    ELSE IF /\ \/ existing_state.last_seen_price > normalize_bounds(probability_config).max
               \/ existing_state.last_seen_price < normalize_bounds(probability_config).min
            /\ normalize_bounds(probability_config).min <= outcome.price
            /\ outcome.price <= normalize_bounds(probability_config).max
    THEN Message("range_entry", outcome.outcome_id, <<outcome.outcome_id>>)
    ELSE NoMessage

\* alerts/range_entry.py
range_entry_evaluate(outcome, existing_state, cfg, probability_config) ==
    IF ~cfg.enabled THEN NoMessage
    ELSE IF existing_state = NoState THEN NoMessage
    ELSE IF existing_state.last_seen_price = NonePrice THEN NoMessage
    ELSE LET b == normalize_bounds(probability_config)
         IN IF /\ existing_state.last_seen_price > b.max
               /\ b.min <= outcome.price
               /\ outcome.price <= b.max
            THEN Message("range_entry", outcome.outcome_id, <<outcome.outcome_id>>)
            ELSE NoMessage

\* main.py build_alerts: the three rules in order, the non-empty messages
build_alerts(outcome, existing_state, cfg, t) ==
    SelectSeq(
        << new_market_evaluate(outcome, existing_state, cfg.alerts.new_market),
           price_spike_evaluate(outcome, existing_state, cfg.alerts.price_spike, t),
           range_entry_evaluate(outcome, existing_state, cfg.alerts.range_entry,
                                cfg.filters.probability) >>,
        LAMBDA m : m # NoMessage)

---------------------------------------------------------------------------
(* src/state.py: StateStore.  Each method is an operator from the store     *)
(* (and the clock reading t) to the store after the call.                   *)

\* an empty dict
EmptyMap == [x \in {} |-> 0]

\* StateStore.__init__ before load()
EmptyStore ==
    [ state |-> EmptyMap,              \* _state: outcome id -> OutcomeState
      processed_trades |-> <<>>,       \* _processed_trades: deque(maxlen)
      processed_trades_set |-> {},     \* _processed_trades_set
      wallet_stats |-> <<>>,           \* _wallet_stats: dict, in insertion order
      insider_alerted |-> {},          \* _insider_alerted
      volume_history |-> EmptyMap ]    \* _volume_history: market id -> samples

OutcomeState(price, seen, alerted, first) ==
    [ last_seen_price |-> price, last_seen_timestamp |-> seen,
      last_alerted_timestamp |-> alerted, first_seen_timestamp |-> first ]

\* f with key k bound to v (dict assignment)
Put(f, k, v) == [x \in DOMAIN f \cup {k} |-> IF x = k THEN v ELSE f[x]]

\* a get() that finds no state
get_absent(S, outcome_id) == NoState

get(S, outcome_id) ==
    IF outcome_id \in DOMAIN S.state THEN S.state[outcome_id] ELSE NoState

\* an upsert() that stamps first_seen_timestamp on every call
upsert_restamping(S, outcome_id, price, t) ==
    [S EXCEPT !.state =
        Put(@, outcome_id, OutcomeState(price, t,
            IF outcome_id \in DOMAIN S.state
            THEN S.state[outcome_id].last_alerted_timestamp ELSE None, t))]

\* an upsert that keeps the state of the one outcome it was given
upsert_forgetting(S, outcome_id, price, t) ==
    LET old == IF outcome_id \in DOMAIN S.state
               THEN S.state[outcome_id]
               ELSE OutcomeState(NonePrice, None, None, t)
    IN [S EXCEPT !.state =
            Put(EmptyMap, outcome_id,
                [old EXCEPT !.last_seen_price = price, !.last_seen_timestamp = t])]

upsert(S, outcome_id, price, t) ==
    LET old == IF outcome_id \in DOMAIN S.state
               THEN S.state[outcome_id]
               ELSE OutcomeState(NonePrice, None, None, t)
    IN [S EXCEPT !.state =
            Put(@, outcome_id,
                [old EXCEPT !.last_seen_price = price, !.last_seen_timestamp = t])]

mark_alerted(S, outcome_id, t) ==
    IF outcome_id \notin DOMAIN S.state THEN S
    ELSE [S EXCEPT !.state[outcome_id].last_alerted_timestamp = t]

has_processed_trade(S, trade_id) == trade_id \in S.processed_trades_set

\* a bounded append that drops the new item when full
DequeAppendKeepOldest(d, x, maxlen) ==
    IF Len(d) >= maxlen THEN d ELSE Append(d, x)

\* deque(maxlen).append: a full deque drops its leftmost item
DequeAppend(d, x, maxlen) ==
    IF maxlen = 0 THEN d
    ELSE IF Len(d) >= maxlen THEN Append(SubSeq(d, Len(d) - maxlen + 2, Len(d)), x)
    ELSE Append(d, x)

\* an add that does not look the id up first
add_processed_trade_again(S, trade_id) ==
    LET full == Len(S.processed_trades) = MaxProcessedTrades
        kept == IF full /\ S.processed_trades # <<>>
                THEN S.processed_trades_set \ {S.processed_trades[1]}
                ELSE S.processed_trades_set
    IN [S EXCEPT
          !.processed_trades = DequeAppend(@, trade_id, MaxProcessedTrades),
          !.processed_trades_set = kept \cup {trade_id}]

\* add_processed_trade
\* an add_processed_trade that leaves the evicted id in the membership set
add_processed_trade_keeping(S, trade_id) ==
    IF trade_id \in S.processed_trades_set THEN S
    ELSE [S EXCEPT
            !.processed_trades = DequeAppend(@, trade_id, MaxProcessedTrades),
            !.processed_trades_set = @ \cup {trade_id}]

add_processed_trade(S, trade_id) ==
    IF trade_id \in S.processed_trades_set THEN S
    ELSE LET full == Len(S.processed_trades) = MaxProcessedTrades
             kept == IF full /\ S.processed_trades # <<>>
                     THEN S.processed_trades_set \ {S.processed_trades[1]}
                     ELSE S.processed_trades_set
         IN [S EXCEPT
               !.processed_trades = DequeAppend(@, trade_id, MaxProcessedTrades),
               !.processed_trades_set = kept \cup {trade_id}]

\* a float that is not a number (the USD values of the model are not negative)
NaN == 0 - 1

\* float addition: NaN absorbs
FloatAdd(a, b) == IF a = NaN \/ b = NaN THEN NaN ELSE a + b

\* the addresses of the wallet table
Addresses(ws) == {ws[i].address : i \in 1..Len(ws)}

\* index of the wallet in the table, 0 when absent
WalletIndex(ws, address) ==
    IF \E i \in 1..Len(ws) : ws[i].address = address
    THEN CHOOSE i \in 1..Len(ws) : ws[i].address = address
    ELSE 0

get_wallet_stats(S, address) ==
    LET i == WalletIndex(S.wallet_stats, address)
    IN IF i = 0 THEN NoState ELSE S.wallet_stats[i]

\* sorted(self._wallet_stats, key = first_seen): a stable sort, so the rank of
\* a wallet counts the wallets with an earlier first_seen and those with the
\* same first_seen that come before it in the dict
WalletRank(ws, i) ==
    Cardinality({j \in 1..Len(ws) :
        \/ DtLT(ws[j].first_seen, ws[i].first_seen)
        \/ (ws[j].first_seen = ws[i].first_seen /\ j < i)})

\* the addresses sorted_addrs[:to_remove]
EvictedAddrs(ws, ceiling) ==
    IF Len(ws) <= ceiling THEN {}
    ELSE {ws[i].address : i \in {j \in 1..Len(ws) : WalletRank(ws, j) < Len(ws) - ceiling}}

\* an eviction that leaves the insider flags alone
evict_keeping_flags(S) ==
    LET gone == EvictedAddrs(S.wallet_stats, MaxWallets)
    IN [S EXCEPT !.wallet_stats = SelectSeq(@, LAMBDA w : w.address \notin gone)]

evict_old_wallets(S) ==
    LET gone == EvictedAddrs(S.wallet_stats, MaxWallets)
    IN [S EXCEPT
          !.wallet_stats = SelectSeq(@, LAMBDA w : w.address \notin gone),
          !.insider_alerted = @ \ gone]

\* update_wallet: the store after the call and the stats dict it returns (the
\* dict the caller holds even when the eviction has just removed the wallet)
\* an update_wallet that keeps only the market of the last trade
update_wallet_last_market(S, address, token_id, usd_value, t) ==
    IF address = "" THEN [store |-> S, stats |-> NoState]
    ELSE LET i == WalletIndex(S.wallet_stats, address)
             old == IF i = 0
                    THEN [address |-> address, first_seen |-> t,
                          markets_traded |-> {}, total_volume |-> 0]
                    ELSE S.wallet_stats[i]
             stats == [old EXCEPT !.markets_traded = {token_id},
                                  !.total_volume = FloatAdd(@, usd_value)]
             table == IF i = 0 THEN Append(S.wallet_stats, stats)
                      ELSE [S.wallet_stats EXCEPT ![i] = stats]
         IN [store |-> evict_old_wallets([S EXCEPT !.wallet_stats = table]),
             stats |-> stats]

update_wallet(S, address, token_id, usd_value, t) ==
    IF address = "" THEN [store |-> S, stats |-> NoState]
    ELSE LET i == WalletIndex(S.wallet_stats, address)
             old == IF i = 0
                    THEN [address |-> address, first_seen |-> t,
                          markets_traded |-> {}, total_volume |-> 0]
                    ELSE S.wallet_stats[i]
             stats == [old EXCEPT !.markets_traded = @ \cup {token_id},
                                  !.total_volume = FloatAdd(@, usd_value)]
             table == IF i = 0 THEN Append(S.wallet_stats, stats)
                      ELSE [S.wallet_stats EXCEPT ![i] = stats]
         IN [store |-> evict_old_wallets([S EXCEPT !.wallet_stats = table]),
             stats |-> stats]

has_insider_alerted(S, address) == address \in S.insider_alerted

mark_insider_alerted(S, address) ==
    [S EXCEPT !.insider_alerted = @ \cup {address}]

\* an age pruning that leaves the insider flags alone
prune_wallets_keeping_flags(S, retention_days, t) ==
    LET cutoff == DtMinusSec(t, retention_days * 86400)
        gone == {S.wallet_stats[i].address : i \in
                   {j \in 1..Len(S.wallet_stats) :
                       DtLT(S.wallet_stats[j].first_seen, cutoff)}}
    IN [S EXCEPT
          !.wallet_stats = SelectSeq(@, LAMBDA w : w.address \notin gone)]

\* prune_wallets: first_seen < now - retention_days
prune_wallets(S, retention_days, t) ==
    LET cutoff == DtMinusSec(t, retention_days * 86400)
        gone == {S.wallet_stats[i].address : i \in
                   {j \in 1..Len(S.wallet_stats) :
                       DtLT(S.wallet_stats[j].first_seen, cutoff)}}
    IN [S EXCEPT
          !.wallet_stats = SelectSeq(@, LAMBDA w : w.address \notin gone),
          !.insider_alerted = @ \ gone]

\* record_volume
record_volume(S, market_id, volume, t) ==
    LET history == IF market_id \in DOMAIN S.volume_history
                   THEN S.volume_history[market_id] ELSE <<>>
    IN [S EXCEPT !.volume_history =
            Put(@, market_id, Append(history, [ts |-> t, vol |-> volume]))]

\* get_volume_window: last minus first sample of the window
get_volume_window(S, market_id, window_minutes, t) ==
    IF market_id \notin DOMAIN S.volume_history THEN 0
    ELSE LET history == S.volume_history[market_id]
             cutoff == DtMinusSec(t, window_minutes * 60)
             recent == SelectSeq(history, LAMBDA p : DtLE(cutoff, p.ts))
         IN IF Len(history) < 2 \/ recent = <<>> THEN 0
            ELSE recent[Len(recent)].vol - recent[1].vol

\* (a - b).total_seconds() in microseconds
DtDiffUsec(a, b) == (a.sec - b.sec) * 1000000 + (a.usec - b.usec)

\* a baseline that divides whatever the change of volume is
get_volume_baseline_any_change(S, market_id, window_minutes, baseline_days, t) ==
    LET zero == [num |-> 0, den |-> 1]
    IN IF market_id \notin DOMAIN S.volume_history THEN zero
       ELSE LET history == S.volume_history[market_id]
                baseline_start == DtMinusSec(t, baseline_days * 86400)
                window_start == DtMinusSec(t, window_minutes * 60)
                points == SelectSeq(history,
                    LAMBDA p : DtLE(baseline_start, p.ts) /\ DtLT(p.ts, window_start))
            IN IF Len(history) < 2 \/ Len(points) < 2 THEN zero
               ELSE LET span == DtDiffUsec(points[Len(points)].ts, points[1].ts)
                        change == points[Len(points)].vol - points[1].vol
                    IN IF span <= 0 THEN zero
                       ELSE IF window_minutes < 0 THEN zero
                       ELSE [num |-> change * window_minutes * 60 * 1000000,
                             den |-> span]

\* get_volume_baseline, as the fraction num / den (den > 0):
\* total_volume_change / (total_span / window_seconds); window_minutes # 0
\* (state.py:190 divides by window_seconds)
get_volume_baseline(S, market_id, window_minutes, baseline_days, t) ==
    LET zero == [num |-> 0, den |-> 1]
    IN IF market_id \notin DOMAIN S.volume_history THEN zero
       ELSE LET history == S.volume_history[market_id]
                baseline_start == DtMinusSec(t, baseline_days * 86400)
                window_start == DtMinusSec(t, window_minutes * 60)
                points == SelectSeq(history,
                    LAMBDA p : DtLE(baseline_start, p.ts) /\ DtLT(p.ts, window_start))
            IN IF Len(history) < 2 \/ Len(points) < 2 THEN zero
               ELSE LET span == DtDiffUsec(points[Len(points)].ts, points[1].ts)
                        change == points[Len(points)].vol - points[1].vol
                    IN IF span <= 0 \/ change <= 0 THEN zero
                       \* state.py:190-192, num_windows <= 0
                       ELSE IF window_minutes < 0 THEN zero
                       ELSE [num |-> change * window_minutes * 60 * 1000000,
                             den |-> span]

\* prune_volume_history: keep ts >= now - retention_days, drop empty series
prune_volume_history(S, retention_days, t) ==
    LET cutoff == DtMinusSec(t, retention_days * 86400)
        kept == [m \in DOMAIN S.volume_history |->
                    SelectSeq(S.volume_history[m], LAMBDA p : DtLE(cutoff, p.ts))]
    IN [S EXCEPT !.volume_history =
            [m \in {x \in DOMAIN kept : kept[x] # <<>>} |-> kept[m]]]

(* Persistence *)

\* an isoformat() of whole seconds
isoformat_seconds(value) == <<value.sec>>

\* datetime.isoformat(): no fraction is printed when microsecond = 0
isoformat(value) ==
    IF value.usec = 0 THEN <<value.sec>> ELSE <<value.sec, value.usec>>

\* datetime.fromisoformat()
fromisoformat(text) ==
    IF Len(text) = 1 THEN Dt(text[1], 0) ELSE Dt(text[1], text[2])

JsonNull == <<>>

format_datetime(value) == IF value = None THEN JsonNull ELSE isoformat(value)

parse_datetime(text) == IF text = JsonNull THEN None ELSE fromisoformat(text)

NoFile == [kind |-> "missing"]
\* a file cut short by a crash in write_text: a strict prefix of the JSON
\* text, the empty text included; json.loads raises on every one of them
TornFile == [kind |-> "torn"]

\* the text save() writes: the wrapped shape
save_payload(S) ==
    [ kind |-> "wrapped",
      outcomes |-> [o \in DOMAIN S.state |->
          [ last_seen_price |-> S.state[o].last_seen_price,
            last_seen_timestamp |-> format_datetime(S.state[o].last_seen_timestamp),
            last_alerted_timestamp |-> format_datetime(S.state[o].last_alerted_timestamp),
            first_seen_timestamp |-> format_datetime(S.state[o].first_seen_timestamp) ]],
      processed_trades |-> S.processed_trades ]

RECURSIVE DequeExtend(_, _, _)
DequeExtend(d, items, maxlen) ==
    IF items = <<>> THEN d
    ELSE DequeExtend(DequeAppend(d, Head(items), maxlen), Tail(items), maxlen)

\* a load() that reads nothing
load_nothing(file) == [ok |-> file.kind # "torn", store |-> EmptyStore]

\* a file of no bytes
EmptyFile == [kind |-> "empty"]

\* a timestamp text datetime.fromisoformat() refuses
MalformedText == <<0, 0, 0>>

\* the payloads _parse_datetime raises ValueError on
Unreadable(outcomes) ==
    {o \in DOMAIN outcomes :
        MalformedText \in {outcomes[o].last_seen_timestamp,
                           outcomes[o].last_alerted_timestamp,
                           outcomes[o].first_seen_timestamp}}

\* the payloads the loop at state.py:50 has read when it ends or raises:
\* those before the first unreadable one (the file lists the outcomes in the
\* order of OutcomeOrder)
ReadBefore(outcomes, bad) ==
    {OutcomeOrder[i] : i \in {k \in 1..Len(OutcomeOrder) :
        /\ OutcomeOrder[k] \in DOMAIN outcomes
        /\ \A j \in 1..k : OutcomeOrder[j] \notin bad}}

\* a load() that takes every file for the wrapped shape
load_wrapped_only(file) ==
    IF file.kind = "missing" THEN [ok |-> TRUE, store |-> EmptyStore]
    ELSE IF file.kind \in {"torn", "empty"} THEN [ok |-> FALSE, store |-> EmptyStore]
    ELSE IF file.kind # "wrapped" THEN [ok |-> TRUE, store |-> EmptyStore]
    ELSE LET trades == file.processed_trades
             bad == Unreadable(file.outcomes)
         IN [ ok |-> bad = {},
              store |-> [EmptyStore EXCEPT
                 !.processed_trades = DequeExtend(<<>>, trades, MaxProcessedTrades),
                 !.processed_trades_set = Range(trades),
                 !.state = [o \in ReadBefore(file.outcomes, bad) |->
                     OutcomeState(
                         file.outcomes[o].last_seen_price,
                         parse_datetime(file.outcomes[o].last_seen_timestamp),
                         parse_datetime(file.outcomes[o].last_alerted_timestamp),
                         parse_datetime(file.outcomes[o].first_seen_timestamp))]] ]

\* StateStore(path): __init__ and load().  ok = FALSE when load() raises:
\* json.loads on a text that is no JSON (state.py:40), _parse_datetime on a
\* text that is no timestamp (state.py:53-61); store is the object as the
\* exception leaves it, which the caller of StateStore(path) never gets.
load(file) ==
    IF file.kind = "missing" THEN [ok |-> TRUE, store |-> EmptyStore]
    ELSE IF file.kind \in {"torn", "empty"} THEN [ok |-> FALSE, store |-> EmptyStore]
    ELSE LET trades == IF file.kind = "wrapped" THEN file.processed_trades ELSE <<>>
             bad == Unreadable(file.outcomes)
         IN [ ok |-> bad = {},
              store |-> [EmptyStore EXCEPT
                 !.processed_trades = DequeExtend(<<>>, trades, MaxProcessedTrades),
                 !.processed_trades_set = Range(trades),
                 !.state = [o \in ReadBefore(file.outcomes, bad) |->
                     OutcomeState(
                         file.outcomes[o].last_seen_price,
                         parse_datetime(file.outcomes[o].last_seen_timestamp),
                         parse_datetime(file.outcomes[o].last_alerted_timestamp),
                         parse_datetime(file.outcomes[o].first_seen_timestamp))]] ]

---------------------------------------------------------------------------
(* Configuration: config.yaml as main.load_config returns it *)

Config(new_market_enabled, volume_spike_enabled) ==
    [ api |-> [max_retries |-> 3],
      telegram |-> [enabled |-> TRUE],
      filters |->
        [ probability |-> [enabled |-> TRUE, min |-> 40, max |-> 90],
          time_to_resolution |-> [enabled |-> FALSE, min_days |-> 0, max_days |-> 30],
          liquidity |-> [enabled |-> TRUE, min_usd |-> 1000],
          volume |-> [enabled |-> TRUE, min_usd |-> 1000] ],
      alerts |->
        [ new_market |-> [enabled |-> new_market_enabled],
          price_spike |-> [enabled |-> TRUE, lookback_minutes |-> 60,
                           percent_change |-> 20, absolute_change |-> NonePrice],
          range_entry |-> [enabled |-> TRUE],
          whale_trade |-> [enabled |-> TRUE, min_usd |-> 10000],
          insider_detection |-> [enabled |-> TRUE, new_wallet_age_hours |-> 24,
                                 single_market_focus |-> TRUE, min_volume_usd |-> 5000],
          volume_spike |-> [enabled |-> volume_spike_enabled, percent_change |-> 200,
                            lookback_minutes |-> 30, baseline_days |-> 7] ],
      wallet_tracking |-> [enabled |-> TRUE, retention_days |-> 30] ]

---------------------------------------------------------------------------
(* src/scanner.py *)

\* a retry loop that sleeps and goes on after its last attempt
retry_iteration_unbounded(kind, max_retries, backoff, fails, st) ==
    LET attempt == st.attempt + 1
    IN IF max_retries = 0
       THEN [st EXCEPT !.outcome = "returned_empty"]
       ELSE IF attempt > fails
       THEN [st EXCEPT !.attempt = attempt, !.outcome = "returned"]
       ELSE [st EXCEPT !.attempt = attempt,
                       !.sleeps = Append(@, backoff * attempt)]

\* One iteration of `for attempt in range(1, max_retries + 1)` in
\* fetch_active_markets (scanner.py:68-95), _fetch_clob_prices
\* (scanner.py:286-315) and _fetch_trades (trade_watcher.py:126-154), and the
\* code after the loop.  The first `fails` requests fail.  st: the attempts
\* made, the seconds slept after each failed one, and how the call ended:
\* the response returned, the error raised (markets), given up without an
\* error (prices: next batch; trades: return []), or the empty list returned
\* by a loop of no iteration.
retry_iteration(kind, max_retries, backoff, fails, st) ==
    LET attempt == st.attempt + 1
    IN IF attempt > max_retries
       THEN [st EXCEPT !.outcome = "returned_empty"]
       ELSE IF attempt > fails
       THEN [st EXCEPT !.attempt = attempt, !.outcome = "returned"]
       ELSE IF attempt >= max_retries
       THEN [st EXCEPT !.attempt = attempt,
                       !.outcome = IF kind = "fetch_active_markets"
                                   THEN "raised" ELSE "gave_up"]
       ELSE [st EXCEPT !.attempt = attempt,
                       !.sleeps = Append(@, backoff * attempt)]

\* One retry loop (scanner.py:68-92, 286-313, trade_watcher.py:127-150) when
\* the first `fails` attempts fail: whether an attempt succeeded, the attempts
\* made and the seconds slept between them (backoff counted in units of
\* retry_backoff_seconds).
retry_loop(fails, max_retries) ==
    LET attempts == IF fails < max_retries THEN fails + 1 ELSE max_retries
    IN [ ok |-> fails < max_retries,
         attempts |-> attempts,
         sleeps |-> [k \in 1..(attempts - 1) |-> k] ]

\* fetch_active_markets: raises after the last failed attempt
fetch_active_markets(api, max_retries) ==
    LET r == retry_loop(api.market_fails, max_retries)
    IN IF r.ok THEN [raised |-> FALSE, markets |-> api.listing]
       ELSE IF r.attempts = 0 THEN [raised |-> FALSE, markets |-> <<>>]
       ELSE [raised |-> TRUE, markets |-> <<>>]

\* _fetch_clob_prices for the tokens of one market (one batch): whether the
\* batch brought prices.  A batch whose retries are exhausted is skipped
\* (scanner.py:314-315): nothing is raised and its tokens get no CLOB price.
fetch_clob_prices(api, market_id, max_retries) ==
    retry_loop(api.batch_fails[market_id], max_retries).ok

\* the OutcomeSnapshot _normalize_event yields for one listed outcome
Snapshot(entry, clob_ok) ==
    [ outcome_id |-> entry.outcome_id,
      market_id |-> MarketOf[entry.outcome_id],
      event_title |-> EventOf[entry.outcome_id],
      price |-> IF clob_ok THEN entry.clob ELSE entry.gamma,
      liquidity |-> entry.liquidity,
      volume |-> entry.volume,
      resolution_time |-> None ]

\* a scan() that raises when a price batch exhausts its retries
scan_raising(api, max_retries) ==
    LET fetched == fetch_active_markets(api, max_retries)
        lost == \E i \in 1..Len(fetched.markets) :
                    ~fetch_clob_prices(api, MarketOf[fetched.markets[i].outcome_id],
                                       max_retries)
    IN [ raised |-> fetched.raised \/ lost,
         snapshots |-> IF lost THEN <<>>
                       ELSE [i \in 1..Len(fetched.markets) |->
                                Snapshot(fetched.markets[i], TRUE)] ]

\* scan(): the snapshots, or the error fetch_active_markets raised
scan(api, max_retries) ==
    LET fetched == fetch_active_markets(api, max_retries)
    IN [ raised |-> fetched.raised,
         snapshots |-> [i \in 1..Len(fetched.markets) |->
             Snapshot(fetched.markets[i],
                      fetch_clob_prices(api, MarketOf[fetched.markets[i].outcome_id],
                                        max_retries))] ]

---------------------------------------------------------------------------
(* src/notifier.py *)

\* A handler in progress: the store, the messages delivered, the calls of
\* send() made, the exception that is propagating ("none" when none is), the
\* events in order, and the bookkeeping of the process run.
Ctx(S, fail_at, hist) ==
    [ store |-> S, sent |-> <<>>, calls |-> 0, exc |-> "none",
      fail_at |-> fail_at, trace |-> <<>>, groups |-> <<>>, hist |-> hist ]

Event(op, key) == <<op, key>>

NewMarketIds(message) ==
    IF message.kind \in {"new_market", "new_market_batch"}
    THEN Range(message.ids) ELSE {}

\* TelegramNotifier.send: session.post and raise_for_status raise on a
\* delivery failure; the call numbered fail_at is the one that fails
notifier_send(ctx, message, cfg) ==
    IF ~cfg.telegram.enabled THEN ctx
    ELSE IF ctx.calls + 1 = ctx.fail_at
    THEN [ctx EXCEPT !.calls = @ + 1, !.exc = "send",
                     !.trace = Append(@, Event("send_failed", message.key))]
    ELSE [ctx EXCEPT !.calls = @ + 1,
                     !.sent = Append(@, message),
                     !.trace = Append(@, Event("send", message.key)),
                     !.hist.nm_count = [o \in DOMAIN @ |->
                         IF o \in NewMarketIds(message) THEN @[o] + 1 ELSE @[o]]]

---------------------------------------------------------------------------
(* src/main.py: run_once *)

\* new_market_groups.setdefault(group_key, []).append(outcome)
GroupAppend(groups, key, outcome) ==
    IF \E i \in 1..Len(groups) : groups[i].key = key
    THEN LET i == CHOOSE j \in 1..Len(groups) : groups[j].key = key
         IN [groups EXCEPT ![i].outcomes = Append(@, outcome)]
    ELSE Append(groups, [key |-> key, outcomes |-> <<outcome>>])

ctx_upsert(ctx, outcome, t) ==
    [ctx EXCEPT !.store = upsert(@, outcome.outcome_id, outcome.price, t),
                !.trace = Append(@, Event("upsert", outcome.outcome_id))]

ctx_mark_alerted(ctx, outcome_id, t) ==
    [ctx EXCEPT !.store = mark_alerted(@, outcome_id, t),
                !.trace = Append(@, Event("mark_alerted", outcome_id))]

\* main.py:119-122: send each message, mark the outcome alerted after each
RECURSIVE send_alerts(_, _, _, _, _)
send_alerts(ctx, messages, outcome_id, cfg, t) ==
    IF messages = <<>> \/ ctx.exc # "none" THEN ctx
    ELSE LET c1 == notifier_send(ctx, Head(messages), cfg)
         IN IF c1.exc # "none" THEN c1
            ELSE send_alerts(ctx_mark_alerted(c1, outcome_id, t),
                             Tail(messages), outcome_id, cfg, t)

\* the first observation of an outcome in this process run, for the claims
NoteFirst(ctx, outcome, existing_state, passed) ==
    IF existing_state # NoState THEN ctx
    ELSE [ctx EXCEPT !.hist.first_obs[outcome.outcome_id] =
              IF passed THEN "passed" ELSE "failed"]

\* an iteration that leaves the stored price as it was when it has alerted
run_once_step_alert_only(ctx, outcome, cfg, t) ==
    LET existing_state == get(ctx.store, outcome.outcome_id)
        passed == passes_filters(outcome, cfg.filters, t)
        c0 == NoteFirst(ctx, outcome, existing_state, passed)
    IN IF ~passed THEN ctx_upsert(c0, outcome, t)
       ELSE IF cfg.alerts.new_market.enabled /\ existing_state = NoState
       THEN ctx_upsert(
                [c0 EXCEPT !.groups =
                    GroupAppend(@, IF outcome.event_title # ""
                                   THEN outcome.event_title ELSE outcome.market_id,
                                outcome)],
                outcome, t)
       ELSE LET c1 == send_alerts(c0, build_alerts(outcome, existing_state, cfg, t),
                                  outcome.outcome_id, cfg, t)
            IN IF c1.exc # "none" \/ c1.sent # c0.sent THEN c1
               ELSE ctx_upsert(c1, outcome, t)

\* an iteration that leaves out the upsert of a snapshot the filters refuse
run_once_step_dropping(ctx, outcome, cfg, t) ==
    LET existing_state == get(ctx.store, outcome.outcome_id)
        passed == passes_filters(outcome, cfg.filters, t)
        c0 == NoteFirst(ctx, outcome, existing_state, passed)
    IN IF ~passed THEN c0
       ELSE IF cfg.alerts.new_market.enabled /\ existing_state = NoState
       THEN ctx_upsert(
                [c0 EXCEPT !.groups =
                    GroupAppend(@, IF outcome.event_title # ""
                                   THEN outcome.event_title ELSE outcome.market_id,
                                outcome)],
                outcome, t)
       ELSE LET c1 == send_alerts(c0, build_alerts(outcome, existing_state, cfg, t),
                                  outcome.outcome_id, cfg, t)
            IN IF c1.exc # "none" THEN c1 ELSE ctx_upsert(c1, outcome, t)

\* main.py:107-124, one iteration of the loop over the snapshots
run_once_step(ctx, outcome, cfg, t) ==
    LET existing_state == get(ctx.store, outcome.outcome_id)
        passed == passes_filters(outcome, cfg.filters, t)
        c0 == NoteFirst(ctx, outcome, existing_state, passed)
    IN IF ~passed THEN ctx_upsert(c0, outcome, t)
       ELSE IF cfg.alerts.new_market.enabled /\ existing_state = NoState
       THEN ctx_upsert(
                [c0 EXCEPT !.groups =
                    GroupAppend(@, IF outcome.event_title # ""
                                   THEN outcome.event_title ELSE outcome.market_id,
                                outcome)],
                outcome, t)
       ELSE LET c1 == send_alerts(c0, build_alerts(outcome, existing_state, cfg, t),
                                  outcome.outcome_id, cfg, t)
            IN IF c1.exc # "none" THEN c1 ELSE ctx_upsert(c1, outcome, t)

RECURSIVE run_once_loop(_, _, _, _)
run_once_loop(ctx, snapshots, cfg, t) ==
    IF snapshots = <<>> \/ ctx.exc # "none" THEN ctx
    ELSE run_once_loop(run_once_step(ctx, Head(snapshots), cfg, t),
                       Tail(snapshots), cfg, t)

RECURSIVE mark_all_alerted(_, _, _)
mark_all_alerted(ctx, outcomes, t) ==
    IF outcomes = <<>> THEN ctx
    ELSE mark_all_alerted(ctx_mark_alerted(ctx, Head(outcomes).outcome_id, t),
                          Tail(outcomes), t)

\* main.py:126-144: one batched message per group, then mark its outcomes
RECURSIVE send_groups(_, _, _, _)
send_groups(ctx, groups, cfg, t) ==
    IF groups = <<>> \/ ctx.exc # "none" THEN ctx
    ELSE LET g == Head(groups)
             message == Message("new_market_batch", g.key,
                                [i \in 1..Len(g.outcomes) |-> g.outcomes[i].outcome_id])
             c1 == notifier_send(ctx, message, cfg)
         IN IF c1.exc # "none" THEN c1
            ELSE send_groups(mark_all_alerted(c1, g.outcomes, t), Tail(groups), cfg, t)

\* StateStore.save as the handler calls it: path.write_text(...) truncates the
\* state file and writes the text in place.  kill = TRUE: the process dies
\* during the write, and the file is left cut short.
ctx_save(ctx, file, kill) ==
    IF ctx.exc # "none" THEN [ctx |-> ctx, file |-> file]
    ELSE IF kill
    THEN [ctx |-> [ctx EXCEPT !.exc = "killed",
                              !.trace = Append(@, Event("save_killed", ""))],
          file |-> TornFile]
    ELSE [ctx |-> [ctx EXCEPT !.trace = Append(@, Event("save", ""))],
          file |-> save_payload(ctx.store)]

\* a run_once that saves the store when the scan raised
run_once_saving(S, file, hist, cfg, t, api, fail_at, kill) ==
    LET scanned == scan(api, cfg.api.max_retries)
        c0 == Ctx(S, fail_at, hist)
    IN IF scanned.raised
       THEN [ctx |-> c0, file |-> save_payload(S), scan_ok |-> FALSE,
             snapshots |-> <<>>]
       ELSE LET c1 == run_once_loop(c0, scanned.snapshots, cfg, t)
                c2 == send_groups(c1, c1.groups, cfg, t)
                end == ctx_save(c2, file, kill)
            IN [ctx |-> end.ctx, file |-> end.file, scan_ok |-> TRUE,
                snapshots |-> scanned.snapshots]

\* run_once: the handler's context and the state file when it ends
run_once(S, file, hist, cfg, t, api, fail_at, kill) ==
    LET scanned == scan(api, cfg.api.max_retries)
        c0 == Ctx(S, fail_at, hist)
    IN IF scanned.raised
       THEN [ctx |-> c0, file |-> file, scan_ok |-> FALSE, snapshots |-> <<>>]
       ELSE LET c1 == run_once_loop(c0, scanned.snapshots, cfg, t)
                c2 == send_groups(c1, c1.groups, cfg, t)
                end == ctx_save(c2, file, kill)
            IN [ctx |-> end.ctx, file |-> end.file, scan_ok |-> TRUE,
                snapshots |-> scanned.snapshots]

---------------------------------------------------------------------------
(* src/alerts for trades and volumes, src/watchers *)

\* TradeWatcher._calc_usd_value: float(size) * float(price), 0.0 when float()
\* refuses either (price in hundredths, so the product is divided by 100);
\* float("nan") is taken and the product is NaN
calc_usd_value(trade) ==
    IF ~trade.numeric THEN 0
    ELSE IF trade.is_nan THEN NaN
    ELSE (trade.size * trade.price) \div 100

\* alerts/whale_trade.py.  numeric: float() took size and price (anything
\* else raises TypeError or ValueError, caught at whale_trade.py:27);
\* is_nan: one of them reads "nan", which float() takes.  The test at
\* whale_trade.py:31 is usd_value < min_usd, false of a nan.
whale_trade_evaluate(trade, cfg) ==
    IF ~cfg.enabled THEN NoMessage
    ELSE IF ~trade.numeric THEN NoMessage
    ELSE IF ~trade.is_nan /\ (trade.size * trade.price) < cfg.min_usd * 100
    THEN NoMessage
    ELSE Message("whale_trade", trade.id, <<trade.id>>)

\* alerts/insider_detection.py
insider_detection_evaluate(wallet, wallet_stats, cfg, t) ==
    IF ~cfg.enabled THEN NoMessage
    ELSE IF wallet_stats = NoState THEN NoMessage
    ELSE IF wallet_stats.first_seen = None THEN NoMessage
    ELSE IF DtLE(Dt(wallet_stats.first_seen.sec + cfg.new_wallet_age_hours * 3600,
                    wallet_stats.first_seen.usec), t) THEN NoMessage
    ELSE IF cfg.single_market_focus /\ Cardinality(wallet_stats.markets_traded) > 1
    THEN NoMessage
    \* insider_detection.py:52: the comparison is false for NaN
    ELSE IF wallet_stats.total_volume # NaN
            /\ wallet_stats.total_volume < cfg.min_volume_usd THEN NoMessage
    ELSE Message("insider", wallet, <<wallet>>)

\* a volume spike rule that takes any baseline
volume_spike_any_baseline(market_id, current_volume, baseline, cfg) ==
    IF ~cfg.enabled THEN NoMessage
    ELSE IF (current_volume * baseline.den - baseline.num) * 100
              < cfg.percent_change * baseline.num
    THEN NoMessage
    ELSE Message("volume_spike", market_id, <<market_id>>)

\* alerts/volume_spike.py, the baseline given as the fraction num / den
volume_spike_evaluate(market_id, current_volume, baseline, cfg) ==
    IF ~cfg.enabled THEN NoMessage
    ELSE IF baseline.num <= 0 THEN NoMessage
    ELSE IF (current_volume * baseline.den - baseline.num) * 100
              < cfg.percent_change * baseline.num
    THEN NoMessage
    ELSE Message("volume_spike", market_id, <<market_id>>)

\* TradeWatcher._build_token_map: the distinct non-empty outcome ids, in order
RECURSIVE build_token_map(_, _)
build_token_map(snapshots, seen) ==
    IF snapshots = <<>> THEN <<>>
    ELSE LET id == Head(snapshots).outcome_id
         IN IF id = "" \/ id \in seen THEN build_token_map(Tail(snapshots), seen)
            ELSE <<id>> \o build_token_map(Tail(snapshots), seen \cup {id})

\* TradeWatcher._fetch_trades: the trades, or [] once the retries are
\* exhausted (trade_watcher.py:152-154 gives up and raises nothing)
fetch_trades(trade_api, token_id, max_retries) ==
    IF retry_loop(trade_api[token_id].fails, max_retries).ok
    THEN trade_api[token_id].trades
    ELSE <<>>

\* trade_watcher.py:72: maker_address or taker_address or ""
trade_wallet(trade) ==
    IF trade.maker_address # "" THEN trade.maker_address ELSE trade.taker_address

\* trade_watcher.py:86-89: send the insider message, then flag the wallet
insider_send(ctx, msg, wallet, cfg) ==
    IF msg = NoMessage THEN ctx
    ELSE IF notifier_send(ctx, msg, cfg).exc # "none"
    THEN notifier_send(ctx, msg, cfg)
    ELSE [notifier_send(ctx, msg, cfg) EXCEPT
             !.store = mark_insider_alerted(@, wallet),
             !.hist.insider_repeated = @ \cup ({wallet} \cap ctx.hist.insider_sent),
             !.hist.insider_sent = @ \cup {wallet}]

\* trade_watcher.py:78-89: the insider rule on the statistics update_wallet
\* returned, unless the wallet is flagged already
insider_check(ctx, stats, wallet, cfg, t) ==
    IF cfg.alerts.insider_detection.enabled /\ ~has_insider_alerted(ctx.store, wallet)
    THEN insider_send(ctx,
             insider_detection_evaluate(wallet, stats, cfg.alerts.insider_detection, t),
             wallet, cfg)
    ELSE ctx

\* trade_watcher.py:76: the store after update_wallet
wallet_updated(ctx, updated, wallet) ==
    [ctx EXCEPT !.store = updated.store,
                !.trace = Append(@, Event("update_wallet", wallet)),
                !.hist.insider_sent =
                    @ \ ((Addresses(ctx.store.wallet_stats) \cup {wallet})
                           \ Addresses(updated.store.wallet_stats))]

\* trade_watcher.py:75-89
track_wallet(ctx, updated, wallet, cfg, t) ==
    IF cfg.wallet_tracking.enabled /\ wallet # ""
    THEN insider_check(wallet_updated(ctx, updated, wallet), updated.stats,
                       wallet, cfg, t)
    ELSE ctx

\* trade_watcher.py:93-95
whale_send(ctx, message, cfg) ==
    IF ctx.exc # "none" \/ message = NoMessage THEN ctx
    ELSE notifier_send(ctx, message, cfg)

\* trade_watcher.py:91-92
whale_check(ctx, trade, cfg) ==
    whale_send(ctx,
               IF cfg.alerts.whale_trade.enabled
               THEN whale_trade_evaluate(trade, cfg.alerts.whale_trade)
               ELSE NoMessage,
               cfg)

\* a trade recorded as processed only once the run has delivered an alert
trade_processed_when_alerted(ctx, trade_id) ==
    IF ctx.exc # "none" \/ ctx.sent = <<>> THEN ctx
    ELSE [ctx EXCEPT !.store = add_processed_trade(@, trade_id),
                     !.trace = Append(@, Event("processed", trade_id))]

\* trade_watcher.py:97
trade_processed(ctx, trade_id) ==
    IF ctx.exc # "none" THEN ctx
    ELSE [ctx EXCEPT !.store = add_processed_trade(@, trade_id),
                     !.trace = Append(@, Event("processed", trade_id))]

\* trade_watcher.py:62-97, one trade of one token
check_trade(ctx, token_id, trade, cfg, t) ==
    IF trade.id = "" THEN ctx
    ELSE IF has_processed_trade(ctx.store, trade.id)
    THEN [ctx EXCEPT !.trace = Append(@, Event("skip", trade.id)),
                     !.hist.skipped = @ \cup {trade.id}]
    ELSE trade_processed(
            whale_check(
                track_wallet(
                    [ctx EXCEPT !.trace = Append(@, Event("evaluate", trade.id))],
                    update_wallet(ctx.store, trade_wallet(trade), token_id,
                                  calc_usd_value(trade), t),
                    trade_wallet(trade), cfg, t),
                trade, cfg),
            trade.id)

RECURSIVE check_trade_list(_, _, _, _, _)
check_trade_list(ctx, token_id, trades, cfg, t) ==
    IF trades = <<>> \/ ctx.exc # "none" THEN ctx
    ELSE check_trade_list(check_trade(ctx, token_id, Head(trades), cfg, t),
                          token_id, Tail(trades), cfg, t)

RECURSIVE check_tokens(_, _, _, _, _)
check_tokens(ctx, tokens, trade_api, cfg, t) ==
    IF tokens = <<>> \/ ctx.exc # "none" THEN ctx
    ELSE check_tokens(
            check_trade_list(ctx, Head(tokens),
                             fetch_trades(trade_api, Head(tokens), cfg.api.max_retries),
                             cfg, t),
            Tail(tokens), trade_api, cfg, t)

\* what a handler hands back: its context, the state file, whether its scan
\* succeeded and the snapshots of the scan
Result(ctx, file, scan_ok, snapshots) ==
    [ctx |-> ctx, file |-> file, scan_ok |-> scan_ok, snapshots |-> snapshots]

Saved(end, snapshots) == Result(end.ctx, end.file, TRUE, snapshots)

\* trade_watcher.py:55-100: the tokens of the scan, then save()
check_scanned(c0, file, scanned, tokens, cfg, t, trade_api, kill) ==
    IF scanned.raised \/ tokens = <<>>
    THEN Result(c0, file, ~scanned.raised, scanned.snapshots)
    ELSE Saved(ctx_save(check_tokens(c0, tokens, trade_api, cfg, t), file, kill),
               scanned.snapshots)

\* TradeWatcher.check_trades
check_trades(S, file, hist, cfg, t, api, trade_api, fail_at, kill) ==
    check_scanned(Ctx(S, fail_at, hist), file, scan(api, cfg.api.max_retries),
                  build_token_map(scan(api, cfg.api.max_retries).snapshots, {}),
                  cfg, t, trade_api, kill)

\* main.py:171-172: prune_wallets runs whether check_trades raised or not
pruned(r, cfg, t) ==
    IF r.ctx.exc = "killed" THEN r
    ELSE [r EXCEPT
            !.ctx.store = prune_wallets(@, cfg.wallet_tracking.retention_days, t),
            !.ctx.hist.insider_sent =
                @ \ (Addresses(r.ctx.store.wallet_stats)
                       \ Addresses(prune_wallets(r.ctx.store,
                            cfg.wallet_tracking.retention_days, t).wallet_stats))]

\* main.py run_whale_check: an exception of check_trades is caught and
\* printed
run_whale_check(S, file, hist, cfg, t, api, trade_api, fail_at, kill) ==
    IF ~cfg.alerts.whale_trade.enabled /\ ~cfg.alerts.insider_detection.enabled
    THEN Result(Ctx(S, fail_at, hist), file, TRUE, <<>>)
    ELSE pruned(check_trades(S, file, hist, cfg, t, api, trade_api, fail_at, kill),
                cfg, t)

\* VolumeWatcher.check_volumes, first loop: one sample per market id
RECURSIVE record_volumes(_, _, _, _)
record_volumes(ctx, snapshots, seen, t) ==
    IF snapshots = <<>> THEN ctx
    ELSE LET snap == Head(snapshots)
         IN IF snap.market_id \in seen
            THEN record_volumes(ctx, Tail(snapshots), seen, t)
            ELSE record_volumes(
                    [ctx EXCEPT
                        !.store = record_volume(@, snap.market_id, snap.volume, t),
                        !.trace = Append(@, Event("record_volume", snap.market_id))],
                    Tail(snapshots), seen \cup {snap.market_id}, t)

\* a fraction in lowest terms: the same number, as the float it stands for
RECURSIVE GCD(_, _)
GCD(a, b) == IF b = 0 THEN a ELSE GCD(b, a % b)

Lowest(f) ==
    [num |-> f.num \div GCD(f.num, f.den), den |-> f.den \div GCD(f.num, f.den)]

\* second loop: each market evaluated once
RECURSIVE evaluate_volumes(_, _, _, _, _)
evaluate_volumes(ctx, snapshots, seen, cfg, t) ==
    IF snapshots = <<>> \/ ctx.exc # "none" THEN ctx
    ELSE LET snap == Head(snapshots)
             spike == cfg.alerts.volume_spike
             current == get_volume_window(ctx.store, snap.market_id,
                                          spike.lookback_minutes, t)
             baseline == Lowest(get_volume_baseline(ctx.store, snap.market_id,
                                    spike.lookback_minutes, spike.baseline_days, t))
             msg == volume_spike_evaluate(snap.market_id, current, baseline, spike)
             c0 == [ctx EXCEPT !.trace = Append(@, Event("evaluate_volume", snap.market_id))]
         IN IF snap.market_id \in seen
            THEN evaluate_volumes(ctx, Tail(snapshots), seen, cfg, t)
            ELSE evaluate_volumes(
                    IF msg = NoMessage THEN c0 ELSE notifier_send(c0, msg, cfg),
                    Tail(snapshots), seen \cup {snap.market_id}, cfg, t)

\* main.py run_volume_check around VolumeWatcher.check_volumes: an exception
\* of check_volumes is caught and printed
run_volume_check(S, file, hist, cfg, t, api, fail_at) ==
    LET c0 == Ctx(S, fail_at, hist)
        scanned == scan(api, cfg.api.max_retries)
        quiet == [ctx |-> c0, file |-> file, scan_ok |-> ~scanned.raised,
                  snapshots |-> scanned.snapshots]
    IN IF ~cfg.alerts.volume_spike.enabled
       THEN [quiet EXCEPT !.scan_ok = TRUE, !.snapshots = <<>>]
       ELSE IF scanned.raised THEN quiet
       ELSE LET c1 == record_volumes(c0, scanned.snapshots, {}, t)
                c2 == evaluate_volumes(c1, scanned.snapshots, {}, cfg, t)
                c3 == IF c2.exc # "none" THEN c2
                      ELSE [c2 EXCEPT !.store = prune_volume_history(
                                @, cfg.alerts.volume_spike.baseline_days + 1, t)]
            IN [quiet EXCEPT !.ctx = c3]

---------------------------------------------------------------------------
(* The process: main() *)

\* main.py:195-196: the configuration main() loads once; the new-market
\* alert is on, the volume sub-cycle is off
config == Config(TRUE, FALSE)

\* the outcome ids and the trade ids a state file holds
SavedOutcomes(file) ==
    IF file.kind \in {"wrapped", "flat"} THEN DOMAIN file.outcomes ELSE {}
SavedTrades(file) == IF file.kind = "wrapped" THEN Range(file.processed_trades) ELSE {}

\* bookkeeping of one process run (one StateStore object), for the claims
FreshRun(file) ==
    [ nm_count |-> [o \in Outcomes |-> 0],       \* new-market messages naming o
      first_obs |-> [o \in Outcomes |->          \* o's first observation
          IF o \in SavedOutcomes(file) THEN "loaded" ELSE "unseen"],
      loaded |-> SavedOutcomes(file),            \* outcomes the file held at start
      loaded_trades |-> SavedTrades(file),       \* trade ids the file held at start
      skipped |-> {},                            \* trade ids skipped as processed
      send_failures |-> 0,
      calls |-> 0,                               \* store-level calls made
      added |-> <<>>,                            \* reference log of trade ids
      cleared |-> {},                            \* wallets evicted while flagged
      insider_sent |-> {},       \* wallets alerted as insiders and not removed since
      insider_repeated |-> {} ]  \* wallets alerted again while in insider_sent

\* what the last handler did, for the claims: the snapshots of its scan, the
\* fetches that exhausted their retries, the messages delivered, its steps,
\* and the exception it ended with
Last(handler, r, snapshots, batch_failed, trades_failed) ==
    [ handler |-> handler, scan_ok |-> r.scan_ok, snapshots |-> snapshots,
      batch_failed |-> batch_failed, trades_failed |-> trades_failed,
      sent |-> r.ctx.sent, trace |-> r.ctx.trace, exc |-> r.ctx.exc,
      args |-> <<>>, ret |-> FALSE ]

NoLast(handler, exc) ==
    [ handler |-> handler, scan_ok |-> TRUE, snapshots |-> <<>>,
      batch_failed |-> {}, trades_failed |-> {},
      sent |-> <<>>, trace |-> <<>>, exc |-> exc,
      args |-> <<>>, ret |-> FALSE ]

NoteFailure(hist, exc) ==
    IF exc = "send" THEN [hist EXCEPT !.send_failures = @ + 1] ELSE hist

\* which call of send() fails (0: none) and whether the process is killed
\* inside save()
Faults(hist) ==
    {[fail_at |-> 0, kill |-> FALSE], [fail_at |-> 0, kill |-> TRUE]}
    \cup (IF hist.send_failures < MaxSendFailures
          THEN {[fail_at |-> k, kill |-> FALSE] : k \in 1..MaxFailAt}
          ELSE {})

\* the markets of the listing whose price batch exhausted its retries
failed_batches(api, max_retries) ==
    {MarketOf[api.listing[i].outcome_id] : i \in
        {j \in 1..Len(api.listing) :
            ~fetch_clob_prices(api, MarketOf[api.listing[j].outcome_id], max_retries)}}

\* the tokens whose trade fetch exhausted its retries
failed_trade_fetches(trade_api, tokens, max_retries) ==
    {o \in tokens : ~retry_loop(trade_api[o].fails, max_retries).ok}

\* the tokens of a listing
Tokens(api) ==
    IF api.market_fails > 0 THEN {}
    ELSE {api.listing[i].outcome_id : i \in 1..Len(api.listing)}

\* main.py:231
RunOnce(apis) ==
    /\ pc = "run_once"
    /\ \E api \in apis, fault \in Faults(run) :
          LET r == run_once(store, disk, run, config, now, api,
                            fault.fail_at, fault.kill)
          IN /\ store' = r.ctx.store
             /\ disk' = r.file
             /\ run' = NoteFailure(r.ctx.hist, r.ctx.exc)
             /\ last' = Last("run_once", r, r.snapshots,
                             failed_batches(api, config.api.max_retries), {})
             \* notifier.send raising is caught nowhere: main() dies with it
             /\ pc' = IF r.ctx.exc = "none" THEN "run_whale_check" ELSE "crashed"
    /\ UNCHANGED <<now>>

\* the variables after a handler that handed back r
Handled(r, next_pc, what) ==
    /\ store' = r.ctx.store
    /\ disk' = r.file
    /\ run' = NoteFailure(r.ctx.hist, r.ctx.exc)
    /\ last' = what
    /\ pc' = next_pc

\* check_trades and run_whale_check catch what is raised: only a kill ends
\* the process
AfterWhaleCheck(r, failed, offered) ==
    Handled(r, IF r.ctx.exc = "killed" THEN "crashed" ELSE "run_volume_check",
            [Last("run_whale_check", r, <<>>, {}, failed) EXCEPT !.args = <<offered>>])

\* the ids of the trades GET /trades holds for the tokens
Offered(trade_api) ==
    UNION {{trade_api[o].trades[i].id : i \in 1..Len(trade_api[o].trades)} :
              o \in DOMAIN trade_api}

\* main.py:232; the trade API is asked about the listed tokens only
RunWhaleCheck(apis, trade_apis) ==
    /\ pc = "run_whale_check"
    /\ \E api \in apis, fault \in Faults(run) :
       \E trade_api \in {a \in trade_apis : \A o \in Outcomes \ Tokens(api) :
                            a[o] = [fails |-> 0, trades |-> <<>>]} :
          AfterWhaleCheck(
              run_whale_check(store, disk, run, config, now, api, trade_api,
                              fault.fail_at, fault.kill),
              failed_trade_fetches(trade_api, Tokens(api), config.api.max_retries),
              Offered(trade_api))
    /\ UNCHANGED <<now>>

\* main.py:233
RunVolumeCheck(apis) ==
    /\ pc = "run_volume_check"
    /\ \E api \in apis, fault \in Faults(run) :
          LET r == run_volume_check(store, disk, run, config, now, api, fault.fail_at)
          IN /\ ~fault.kill
             /\ store' = r.ctx.store
             /\ run' = NoteFailure(r.ctx.hist, r.ctx.exc)
             /\ last' = Last("run_volume_check", r, <<>>, {}, {})
    /\ pc' = "sleep"
    /\ UNCHANGED <<now, disk>>

\* main.py:234-237: sleep until the next cycle
Sleep ==
    /\ pc = "sleep"
    /\ pc' = "run_once"
    /\ UNCHANGED <<now, store, disk, last, run>>

\* the wall clock moves on by step microseconds while the process is at one
\* of the places pcs
Tick(pcs, step) ==
    /\ pc \in pcs
    /\ DtLE(DtPlusUsec(now, step), Dt(MaxClock, 0))
    /\ now' = DtPlusUsec(now, step)
    /\ UNCHANGED <<pc, store, disk, last, run>>

\* the process is stopped between two handlers (a kill, a redeploy)
Stop ==
    /\ pc \in {"run_once", "run_whale_check", "run_volume_check", "sleep"}
    /\ pc' = "crashed"
    /\ last' = NoLast("stop", "killed")
    /\ UNCHANGED <<now, store, disk, run>>

\* the process is started again: main.py:213, StateStore(path) loads the file;
\* load() raising ends main() before its loop
Restarted(hist) ==
    /\ pc \in {"crashed", "load_failed"}
    /\ LET l == load(disk)
       IN /\ store' = l.store
          /\ run' = hist
          /\ pc' = IF l.ok THEN "run_once" ELSE "load_failed"
          /\ last' = NoLast("load", IF l.ok THEN "none" ELSE "load")
    /\ UNCHANGED <<now, disk>>

Restart == Restarted(FreshRun(disk))

\* the same, the bookkeeping keeping which wallets the earlier runs of the
\* process alerted
RestartWatched ==
    Restarted([FreshRun(disk) EXCEPT !.insider_sent = run.insider_sent,
                                     !.insider_repeated = run.insider_repeated])

(* Inputs of the main loop *)

\* the elements of S, listed once
Enumerated(S) == {x : x \in S}

OutcomeIndex(o) == CHOOSE i \in 1..Len(OutcomeOrder) : OutcomeOrder[i] = o
Markets == {MarketOf[o] : o \in Outcomes}

\* one listed outcome: its listing price (outcomePrices), the CLOB price, and
\* the market's liquidity and volume
Entries(outcomes, prices) ==
    [outcome_id : outcomes, gamma : {50}, clob : prices,
     liquidity : {1000}, volume : {5000}]

\* listings of at most MaxSnapshots outcomes, in listing order (an outcome
\* may be listed twice)
Listings(outcomes, prices) ==
    {l \in UNION {[1..n -> Entries(outcomes, prices)] : n \in 0..MaxSnapshots} :
        \A i \in 1..(Len(l) - 1) :
            OutcomeIndex(l[i].outcome_id) <= OutcomeIndex(l[i + 1].outcome_id)}

\* the market API as one scan meets it: the failed attempts of the market
\* fetch and of each market's price batch (0, or every attempt), and the
\* listing.  What a failed fetch would have returned is left out.
Apis(outcomes, prices) ==
    {a \in [market_fails : {0, 3}, listing : Listings(outcomes, prices),
            batch_fails : [Markets -> {0, 3}]] :
        /\ a.market_fails = 3 =>
              (a.listing = <<>> /\ \A m \in Markets : a.batch_fails[m] = 0)
        /\ \A m \in Markets : a.batch_fails[m] = 3 =>
              /\ \E i \in 1..Len(a.listing) : MarketOf[a.listing[i].outcome_id] = m
              /\ \A i \in 1..Len(a.listing) :
                    MarketOf[a.listing[i].outcome_id] = m
                        => a.listing[i].clob = a.listing[i].gamma}

\* the scans of the main loop: two outcomes, one priced inside and one
\* outside the probability range
ScanApis == Enumerated(Apis({"o1", "o2"}, {50, 95}))
\* the trade and volume sub-cycles read no price
TokenApis ==
    Enumerated({a \in Apis({"o1", "o2"}, {50}) :
        /\ \A m \in Markets : a.batch_fails[m] = 0
        /\ \A i, j \in 1..Len(a.listing) :
              a.listing[i].outcome_id = a.listing[j].outcome_id => i = j})

Trade(id, maker, size) ==
    [id |-> id, maker_address |-> maker, taker_address |-> "",
     size |-> size, price |-> 50, numeric |-> TRUE, is_nan |-> FALSE]

\* the trades the CLOB holds for each token: a whale trade of a new wallet,
\* a small trade of another, and the first wallet's trade in a second market
TradesOf ==
    [o \in Outcomes |->
        IF o = "o1" THEN <<Trade("t1", "w1", 40000), Trade("t2", "w2", 2000)>>
        ELSE IF o = "o2" THEN <<Trade("t3", "w1", 12000)>>
        ELSE <<>>]

SubSeqs(s) ==
    {SelectSeq(s, LAMBDA x : x \in keep) : keep \in SUBSET Range(s)}

\* what GET /trades returns per token: some of the trades held for it, or
\* failures
TradeApis(trades_of) ==
    {a \in [Outcomes -> [fails : {0, 3},
                         trades : UNION {SubSeqs(trades_of[o]) : o \in Outcomes}]] :
        \A o \in Outcomes :
            /\ a[o].trades \in SubSeqs(trades_of[o])
            /\ a[o].fails = 3 => a[o].trades = <<>>}

\* the main loop meets the trades of the first token only
MainTrades == [o \in Outcomes |-> IF o = "o1" THEN <<TradesOf[o][1]>> ELSE <<>>]
MainTradeApis == Enumerated(TradeApis(MainTrades))

\* the volume sub-cycle is switched off in the main loop's configuration
QuietApis == Enumerated({a \in TokenApis : a.listing = <<>> /\ a.market_fails = 0})

Init ==
    /\ now = Dt(0, 0)
    /\ pc = "run_once"
    /\ store = EmptyStore
    /\ disk = NoFile
    /\ last = NoLast("load", "none")
    /\ run = FreshRun(NoFile)

Next ==
    \/ RunOnce(ScanApis)
    \/ RunWhaleCheck(TokenApis, MainTradeApis)
    \/ RunVolumeCheck(QuietApis)
    \/ Sleep
    \/ Stop
    \/ Restart

Spec == Init /\ [][Next]_vars

\* the main loop with no trade to meet: the scan cycles alone change the store
QuietTradeApis ==
    Enumerated({a \in TradeApis([o \in Outcomes |-> <<>>]) :
                   \A o \in Outcomes : a[o].fails = 0})

NextScan ==
    \/ RunOnce(ScanApis)
    \/ RunWhaleCheck(QuietApis, QuietTradeApis)
    \/ RunVolumeCheck(QuietApis)
    \/ Sleep
    \/ Stop
    \/ Restart

SpecScan == Init /\ [][NextScan]_vars

(* The trade sub-cycle over several process runs *)

\* the trades the CLOB holds for the first token: a large trade of a new
\* wallet, a small trade of another wallet and a second large trade of the
\* first wallet
WatchedTrades ==
    [o \in Outcomes |->
        IF o = "o1"
        THEN <<Trade("t1", "w1", 40000), Trade("t2", "w2", 2000),
               Trade("t3", "w1", 40000)>>
        ELSE <<>>]

WatchedTradeApis == Enumerated(TradeApis(WatchedTrades))

\* the first token listed or not
WatchedTokenApis == Enumerated({a \in TokenApis :
    \A i \in 1..Len(a.listing) : a.listing[i].outcome_id = "o1"})

NextTrades ==
    \/ RunOnce(QuietApis)
    \/ RunWhaleCheck(WatchedTokenApis, WatchedTradeApis)
    \/ RunVolumeCheck(QuietApis)
    \/ Sleep
    \/ Stop
    \/ RestartWatched

SpecTrades == Init /\ [][NextTrades]_vars

(* The trade sub-cycle meeting malformed records *)

\* the first token holds a trade whose size float() refuses and a large
\* trade of another wallet; the second token holds a trade of the first
\* wallet whose size is the text "nan"
MalformedTrades ==
    [o \in Outcomes |->
        IF o = "o1"
        THEN <<[Trade("t1", "w1", 40000) EXCEPT !.numeric = FALSE],
               Trade("t2", "w2", 40000)>>
        ELSE IF o = "o2"
        THEN <<[Trade("t3", "w1", 40000) EXCEPT !.is_nan = TRUE]>>
        ELSE <<>>]

MalformedTradeApis == Enumerated(TradeApis(MalformedTrades))

NextMalformed ==
    \/ RunOnce(QuietApis)
    \/ RunWhaleCheck(TokenApis, MalformedTradeApis)
    \/ RunVolumeCheck(QuietApis)
    \/ Sleep
    \/ Stop
    \/ Restart

SpecMalformed == Init /\ [][NextMalformed]_vars

---------------------------------------------------------------------------
(* The StateStore called directly: one action per method of src/state.py *)

\* what a store-level call was: its name, its arguments and what it returned
Call(op, args, ret) == [NoLast(op, "none") EXCEPT !.args = args, !.ret = ret]

\* a bounded set that forgets its oldest member: the reference the processed
\* trades are compared with.  The log holds the members in insertion order;
\* the members still held are the last `capacity` of the log.
Suffix(log, capacity) ==
    IF Len(log) <= capacity THEN log
    ELSE SubSeq(log, Len(log) - capacity + 1, Len(log))

RefAdd(log, id, capacity) ==
    IF id \in Range(Suffix(log, capacity)) THEN log ELSE Append(log, id)

\* enough trade ids to fill the deque and evict from it
StoreTradeIds == {TradeIds[i] : i \in 1..(MaxProcessedTrades + 2)}

CanCall == pc = "api" /\ run.calls < MaxCalls

Upsert(outcomes, prices) ==
    /\ CanCall
    /\ \E o \in outcomes, price \in prices :
          /\ store' = upsert(store, o, price, now)
          /\ last' = Call("upsert", <<o, price>>, FALSE)
    /\ run' = [run EXCEPT !.calls = @ + 1]
    /\ UNCHANGED <<now, pc, disk>>

MarkAlerted(outcomes) ==
    /\ CanCall
    /\ \E o \in outcomes :
          /\ store' = mark_alerted(store, o, now)
          /\ last' = Call("mark_alerted", <<o>>, FALSE)
    /\ run' = [run EXCEPT !.calls = @ + 1]
    /\ UNCHANGED <<now, pc, disk>>

AddProcessedTrade(ids) ==
    /\ CanCall
    /\ \E id \in ids :
          /\ store' = add_processed_trade(store, id)
          /\ last' = Call("add_processed_trade", <<id>>, FALSE)
          /\ run' = [run EXCEPT !.calls = @ + 1,
                                !.added = RefAdd(@, id, MaxProcessedTrades)]
    /\ UNCHANGED <<now, pc, disk>>

HasProcessedTrade(ids) ==
    /\ CanCall
    /\ \E id \in ids :
          last' = Call("has_processed_trade", <<id>>, has_processed_trade(store, id))
    /\ run' = [run EXCEPT !.calls = @ + 1]
    /\ UNCHANGED <<now, pc, store, disk>>

UpdateWallet(wallets) ==
    /\ CanCall
    /\ \E address \in wallets :
          LET r == update_wallet(store, address, "o1", 6000, now)
          IN /\ store' = r.store
             /\ last' = Call("update_wallet", <<address>>, r.stats)
             /\ run' = [run EXCEPT
                          !.calls = @ + 1,
                          !.cleared = @ \cup
                              {a \in store.insider_alerted :
                                  /\ a \in Addresses(store.wallet_stats)
                                  /\ a \notin Addresses(r.store.wallet_stats)}]
    /\ UNCHANGED <<now, pc, disk>>

MarkInsiderAlerted ==
    /\ CanCall
    /\ \E address \in Addresses(store.wallet_stats) :
          /\ store' = mark_insider_alerted(store, address)
          /\ last' = Call("mark_insider_alerted", <<address>>, FALSE)
    /\ run' = [run EXCEPT !.calls = @ + 1]
    /\ UNCHANGED <<now, pc, disk>>

\* save() that runs to its end
Save ==
    /\ CanCall
    /\ disk' = save_payload(store)
    /\ last' = Call("save", <<>>, FALSE)
    /\ run' = [run EXCEPT !.calls = @ + 1]
    /\ UNCHANGED <<now, pc, store>>

\* StateStore(path): a fresh store loads the file
Reload ==
    /\ CanCall
    /\ load(disk).ok
    /\ store' = load(disk).store
    /\ last' = Call("load", <<>>, FALSE)
    /\ run' = [run EXCEPT !.calls = @ + 1,
                          !.added = load(disk).store.processed_trades]
    /\ UNCHANGED <<now, pc, disk>>

InitStore ==
    /\ now = Dt(0, 0)
    /\ pc = "api"
    /\ store = EmptyStore
    /\ disk = NoFile
    /\ last = NoLast("load", "none")
    /\ run = FreshRun(NoFile)

NextProcessedTrades ==
    \/ AddProcessedTrade(StoreTradeIds)
    \/ HasProcessedTrade(StoreTradeIds)

SpecProcessedTrades == InitStore /\ [][NextProcessedTrades]_vars

NextWallets ==
    \/ UpdateWallet(Wallets)
    \/ MarkInsiderAlerted
    \/ Tick({"api"}, 500000)

SpecWallets == InitStore /\ [][NextWallets]_vars

\* update_wallet as check_trades calls it (trade_watcher.py:77): the wallet
\* of the trade, which is "" for a trade that names none, the token and the
\* USD value of the trade
UpdateWalletOfTrade ==
    /\ CanCall
    /\ \E address \in {"", "w1", "w2", "w3"}, token_id \in {"o1", "o2"},
          usd_value \in {6000} :
          LET r == update_wallet(store, address, token_id, usd_value, now)
          IN /\ store' = r.store
             /\ last' = Call("update_wallet", <<address, token_id, usd_value>>,
                             r.stats)
    /\ run' = [run EXCEPT !.calls = @ + 1]
    /\ UNCHANGED <<now, pc, disk>>

NextWalletUpdates ==
    \/ UpdateWalletOfTrade
    \/ Tick({"api"}, 1000000)

SpecWalletUpdates == InitStore /\ [][NextWalletUpdates]_vars

\* the payloads of a state file: a price, and timestamps that are null, whole
\* seconds, seconds with microseconds, or no timestamp at all
PayloadsOnDisk ==
    [ last_seen_price : {50},
      last_seen_timestamp : {<<5>>, <<5, 7>>, MalformedText},
      last_alerted_timestamp : {JsonNull, <<5>>},
      first_seen_timestamp : {JsonNull, MalformedText} ]

OutcomesOnDisk ==
    UNION {[ids -> PayloadsOnDisk] : ids \in SUBSET {"o1", "o2"}}

\* the state files a process can find at startup: none, one of no bytes, one
\* cut short, the flat mapping of older versions, and the shape save() writes
StateFiles ==
    {NoFile, EmptyFile, TornFile}
    \cup {[kind |-> "flat", outcomes |-> outcomes] : outcomes \in OutcomesOnDisk}
    \cup {[kind |-> "wrapped", outcomes |-> outcomes, processed_trades |-> trades] :
            outcomes \in OutcomesOnDisk, trades \in {<<>>, <<"t1", "t2">>}}

InitLoad ==
    /\ now = Dt(0, 0)
    /\ pc = "crashed"
    /\ store = EmptyStore
    /\ disk \in StateFiles
    /\ last = NoLast("stop", "killed")
    /\ run = FreshRun(NoFile)

\* main.py:213 on each of the files, the process stopped and started again
NextLoad ==
    \/ Restart
    \/ Stop

SpecLoad == InitLoad /\ [][NextLoad]_vars

NextOutcomes ==
    \/ Upsert({"o1", "o2"}, {50, 80})
    \/ MarkAlerted({"o1", "o2"})
    \/ AddProcessedTrade({"t1", "t2"})
    \/ Save
    \/ Reload
    \/ Tick({"api"}, 500000)

SpecOutcomes == InitStore /\ [][NextOutcomes]_vars

\* time passes between two calls on the store
Elapse(seconds) ==
    /\ CanCall
    /\ \E s \in seconds : now' = Dt(now.sec + s, now.usec)
    /\ run' = [run EXCEPT !.calls = @ + 1]
    /\ UNCHANGED <<pc, store, disk, last>>

RecordVolume(markets, volumes) ==
    /\ CanCall
    /\ \E market_id \in markets, volume \in volumes :
          /\ store' = record_volume(store, market_id, volume, now)
          /\ last' = Call("record_volume", <<market_id, volume>>, FALSE)
    /\ run' = [run EXCEPT !.calls = @ + 1]
    /\ UNCHANGED <<now, pc, disk>>

\* get_volume_baseline(market_id, window_minutes = 1, baseline_days = 1)
GetVolumeBaseline(markets) ==
    /\ CanCall
    /\ \E market_id \in markets :
          last' = Call("get_volume_baseline", <<market_id, 1, 1, now>>,
                       get_volume_baseline(store, market_id, 1, 1, now))
    /\ run' = [run EXCEPT !.calls = @ + 1]
    /\ UNCHANGED <<now, pc, store, disk>>

\* samples of a market's cumulative volume, rising and falling, taken at
\* once, half a minute, a minute and a half and a day apart
NextVolume ==
    \/ RecordVolume({"m1"}, {10, 30})
    \/ GetVolumeBaseline({"m1", "m2"})
    \/ Elapse({30, 90, 86400})

SpecVolume == InitStore /\ [][NextVolume]_vars

---------------------------------------------------------------------------
(* The alert rules and the filters called directly: one action per rule,   *)
(* one call per behaviour                                                  *)

\* an OutcomeSnapshot of outcome o1
SnapshotOf(price, resolution_time, liquidity, volume) ==
    [Snapshot([outcome_id |-> "o1", gamma |-> price, clob |-> price,
               liquidity |-> liquidity, volume |-> volume], TRUE)
        EXCEPT !.resolution_time = resolution_time]

\* the state get() returned: none, or one with a price and a time (either
\* may be None).  The calls are made at 60 s or a microsecond later; the
\* earlier observation was made a minute before the first, a microsecond
\* after that, or at the first
PriorStates(prices) ==
    {NoState} \cup
    {OutcomeState(p, seen, None, seen) :
        p \in prices, seen \in {None, Dt(0, 0), Dt(0, 1), Dt(60, 0)}}

PriceSpike ==
    /\ pc = "rules"
    /\ \E price \in {10, 15, 50, 61, 80, 95},
          existing_state \in PriorStates({NonePrice, 0, 10, 50, 95}),
          cfg \in [enabled : BOOLEAN, lookback_minutes : {0, 1},
                   percent_change : {0, 20}, absolute_change : {NonePrice, 0, 10}] :
          last' = Call("price_spike",
                       <<SnapshotOf(price, None, 1000, 5000), existing_state, cfg, now>>,
                       price_spike_evaluate(SnapshotOf(price, None, 1000, 5000),
                                            existing_state, cfg, now))
    /\ pc' = "called"
    /\ UNCHANGED <<now, store, disk, run>>

\* probability bounds a <= b as fractions (in hundredths) and the same bounds
\* written as percentages
Fractions == {f \in [min : {0, 1, 70, 90}, max : {1, 70, 90, 100}] : f.min <= f.max}
AsFractions(f) == [enabled |-> TRUE, min |-> f.min, max |-> f.max]
AsPercentages(f) == [enabled |-> TRUE, min |-> 100 * f.min, max |-> 100 * f.max]

ProbabilityPasses ==
    /\ pc = "rules"
    /\ \E price \in {0, 1, 50, 70, 80, 90, 95, 100}, f \in Fractions :
       \E cfg \in {AsFractions(f), AsPercentages(f)}, enabled \in BOOLEAN :
          last' = Call("probability_passes",
                       <<SnapshotOf(price, None, 1000, 5000),
                         [cfg EXCEPT !.enabled = enabled], f>>,
                       probability_passes(SnapshotOf(price, None, 1000, 5000),
                                          [cfg EXCEPT !.enabled = enabled]))
    /\ pc' = "called"
    /\ UNCHANGED <<now, store, disk, run>>

RangeEntry ==
    /\ pc = "rules"
    /\ \E price \in {50, 70, 80, 90, 95},
          existing_state \in PriorStates({NonePrice, 50, 80, 90, 95}),
          enabled \in BOOLEAN, f \in Fractions :
       \E probability_config \in {AsFractions(f), AsPercentages(f)} :
          last' = Call("range_entry",
                       <<SnapshotOf(price, None, 1000, 5000), existing_state,
                         [enabled |-> enabled], probability_config, f>>,
                       range_entry_evaluate(SnapshotOf(price, None, 1000, 5000),
                                            existing_state, [enabled |-> enabled],
                                            probability_config))
    /\ pc' = "called"
    /\ UNCHANGED <<now, store, disk, run>>

\* passes_filters and the four filters on the same snapshot, each filter on
\* or off; the resolution time unknown, now or just before, in a day, in
\* three days
PassesFilters ==
    /\ pc = "rules"
    /\ \E price \in {50, 95},
          resolution_time \in {None, Dt(60, 0), Dt(86460, 1), Dt(259260, 0)},
          liquidity \in {500, 1000}, volume \in {500, 5000},
          filters_config \in
             [probability : [enabled : BOOLEAN, min : {40}, max : {90}],
              time_to_resolution :
                 [enabled : BOOLEAN, min_days : {0, 1}, max_days : {2}],
              liquidity : [enabled : BOOLEAN, min_usd : {1000}],
              volume : [enabled : BOOLEAN, min_usd : {1000}]] :
          LET outcome == SnapshotOf(price, resolution_time, liquidity, volume)
          IN last' = Call("passes_filters", <<outcome, filters_config, now>>,
                 [ chain |-> passes_filters(outcome, filters_config, now),
                   probability |->
                       probability_passes(outcome, filters_config.probability),
                   time_to_resolution |->
                       time_to_resolution_passes(
                           outcome, filters_config.time_to_resolution, now),
                   liquidity |-> liquidity_passes(outcome, filters_config.liquidity),
                   volume |-> volume_passes(outcome, filters_config.volume) ])
    /\ pc' = "called"
    /\ UNCHANGED <<now, store, disk, run>>

\* a trade as GET /trades returns it: size and price that are numbers, text
\* float() refuses, or the text "nan"
WhaleTrade ==
    /\ pc = "rules"
    /\ \E size \in {0, 19999, 20000, 40000}, price \in {50, 100},
          numeric \in BOOLEAN, is_nan \in BOOLEAN,
          cfg \in [enabled : BOOLEAN, min_usd : {0, 10000, 20000}] :
          /\ is_nan => numeric
          /\ last' = Call("whale_trade",
                <<[Trade("t1", "w1", size) EXCEPT !.price = price,
                      !.numeric = numeric, !.is_nan = is_nan], cfg>>,
                whale_trade_evaluate(
                    [Trade("t1", "w1", size) EXCEPT !.price = price,
                        !.numeric = numeric, !.is_nan = is_nan], cfg))
    /\ pc' = "called"
    /\ UNCHANGED <<now, store, disk, run>>

\* the insider rule a day after the start of the run on the stats of a
\* wallet first seen a day before the call, a microsecond later, forty
\* minutes before it, or with no first_seen; its volume may be the NaN a
\* trade of size "nan" leaves in total_volume
InsiderDetection ==
    /\ pc = "rules"
    /\ \E first_seen \in {None, Dt(60, 0), Dt(60, 1), Dt(84000, 0)},
          markets_traded \in {{}, {"o1"}, {"o1", "o2"}},
          total_volume \in {NaN, 0, 4999, 5000, 6000},
          cfg \in [enabled : BOOLEAN, new_wallet_age_hours : {0, 24},
                   single_market_focus : BOOLEAN, min_volume_usd : {0, 5000}] :
          LET wallet_stats == [address |-> "w1", first_seen |-> first_seen,
                               markets_traded |-> markets_traded,
                               total_volume |-> total_volume]
              t == Dt(now.sec + 86400, now.usec)
          IN /\ now' = t
             /\ last' = Call("insider_detection", <<wallet_stats, cfg, t>>,
                             insider_detection_evaluate("w1", wallet_stats, cfg, t))
    /\ pc' = "called"
    /\ UNCHANGED <<store, disk, run>>

\* the volume spike rule on a current volume and a baseline num / den, the
\* baseline negative, zero or positive
VolumeSpike ==
    /\ pc = "rules"
    /\ \E current_volume \in {0, 10, 29, 30, 31, 100},
          num \in {0 - 10, 0, 10, 20}, den \in {1, 2},
          cfg \in [enabled : BOOLEAN, percent_change : {0, 100, 200}] :
          last' = Call("volume_spike",
                       <<current_volume, [num |-> num, den |-> den], cfg>>,
                       volume_spike_evaluate("m1", current_volume,
                                             [num |-> num, den |-> den], cfg))
    /\ pc' = "called"
    /\ UNCHANGED <<now, store, disk, run>>

InitRules ==
    /\ now \in {Dt(60, 0), Dt(60, 1)}
    /\ pc = "rules"
    /\ store = EmptyStore
    /\ disk = NoFile
    /\ last = NoLast("load", "none")
    /\ run = FreshRun(NoFile)

NextRules ==
    \/ PriceSpike
    \/ RangeEntry
    \/ ProbabilityPasses
    \/ PassesFilters
    \/ WhaleTrade
    \/ InsiderDetection
    \/ VolumeSpike

SpecRules == InitRules /\ [][NextRules]_vars

\* the three fetches, each on an API whose first requests fail (none, some,
\* or more than the loop attempts), with max_retries from 0 and a backoff of
\* one or two seconds
InitRetry ==
    /\ now = Dt(0, 0)
    /\ pc = "retry"
    /\ store = EmptyStore
    /\ disk = NoFile
    /\ run = FreshRun(NoFile)
    /\ \E kind \in {"fetch_active_markets", "fetch_clob_prices", "fetch_trades"},
          max_retries \in 0..MaxRetries, backoff \in {1, 2},
          fails \in 0..(MaxRetries + 1) :
          last = Call(kind, <<max_retries, backoff, fails>>,
                      [attempt |-> 0, sleeps |-> <<>>, outcome |-> "running"])

\* an attempt that ends the call
Fetched ==
    /\ pc = "retry"
    /\ LET st == retry_iteration(last.handler, last.args[1], last.args[2],
                                 last.args[3], last.ret)
       IN /\ st.outcome # "running"
          /\ last' = [last EXCEPT !.ret = st]
    /\ pc' = "called"
    /\ UNCHANGED <<now, store, disk, run>>

\* an attempt that fails, and the time.sleep that follows it
Retried ==
    /\ pc = "retry"
    /\ LET st == retry_iteration(last.handler, last.args[1], last.args[2],
                                 last.args[3], last.ret)
       IN /\ st.outcome = "running"
          /\ last' = [last EXCEPT !.ret = st]
          /\ now' = Dt(now.sec + st.sleeps[Len(st.sleeps)], now.usec)
    /\ UNCHANGED <<pc, store, disk, run>>

NextRetry ==
    \/ Fetched
    \/ Retried

\* the thread that runs the loop is never held back
SpecRetry == InitRetry /\ [][NextRetry]_vars /\ WF_vars(NextRetry)

\* the processed trades through save() and load(): ids are added, the store
\* is saved, and a store is built again from the file save() wrote
NextProcessedFiles ==
    \/ AddProcessedTrade(StoreTradeIds)
    \/ Save
    \/ Reload

SpecProcessedFiles == InitStore /\ [][NextProcessedFiles]_vars

(* The volume sub-cycle over several cycles of one process *)

\* the volume-spike alert enabled, with a window of one minute against a
\* baseline of one day
VolumeConfig ==
    [config EXCEPT !.alerts.volume_spike =
        [enabled |-> TRUE, percent_change |-> 200,
         lookback_minutes |-> 1, baseline_days |-> 1]]

Listed(outcome_id, volume) ==
    [outcome_id |-> outcome_id, gamma |-> 50, clob |-> 50,
     liquidity |-> 1000, volume |-> volume]

\* what the scans list: two markets; one market through two outcomes whose
\* snapshots carry different volumes; the rising market before another one;
\* the rising market through two outcomes
VolumeApis ==
    {[market_fails |-> 0, listing |-> l, batch_fails |-> [m \in Markets |-> 0]] :
        l \in {<<Listed("o2", 1), Listed("o1", 1)>>,
               <<Listed("o2", 2), Listed("o3", 1)>>,
               <<Listed("o3", 9), Listed("o1", 1)>>,
               <<Listed("o3", 9), Listed("o2", 2)>>}}

InitVolumeCycles ==
    /\ now = Dt(0, 0)
    /\ pc = "run_volume_check"
    /\ store = EmptyStore
    /\ disk = NoFile
    /\ last = NoLast("load", "none")
    /\ run = FreshRun(NoFile)

\* main.py:233 with the volume-spike alert enabled
CheckVolumes ==
    /\ pc = "run_volume_check"
    /\ run.calls < MaxCalls
    /\ \E api \in VolumeApis, fault \in Faults(run) :
          LET r == run_volume_check(store, disk, run, VolumeConfig, now, api,
                                    fault.fail_at)
          IN /\ ~fault.kill
             /\ store' = r.ctx.store
             /\ run' = [NoteFailure(r.ctx.hist, r.ctx.exc) EXCEPT !.calls = @ + 1]
             /\ last' = Last("run_volume_check", r, r.snapshots, {}, {})
    /\ pc' = "sleep"
    /\ UNCHANGED <<now, disk>>

\* main.py:234-237: the loop sleeps until the next cycle, half a minute or a
\* day later (the scan and the trade sub-cycle in between leave the volume
\* history alone)
SleepFor(seconds) ==
    /\ pc = "sleep"
    /\ \E s \in seconds : now' = Dt(now.sec + s, now.usec)
    /\ pc' = "run_volume_check"
    /\ UNCHANGED <<store, disk, last, run>>

NextVolumeCycles == CheckVolumes \/ SleepFor({30, 86400})

SpecVolumeCycles == InitVolumeCycles /\ [][NextVolumeCycles]_vars

(* The trade sub-cycle meeting more wallets than the table holds *)

\* the trades the CLOB holds for the first token: a large trade of each of
\* three new wallets, one more than the table keeps
InsiderTrades ==
    [o \in Outcomes |->
        IF o = "o1"
        THEN <<Trade("t1", "w1", 40000), Trade("t2", "w2", 40000),
               Trade("t3", "w3", 40000)>>
        ELSE <<>>]

InsiderTradeApis == Enumerated(TradeApis(InsiderTrades))

\* main.py:234-237 with the process left running for a month and a day:
\* longer than wallet_tracking.retention_days
SleepMonth ==
    /\ pc = "sleep"
    /\ now.sec + 31 * 86400 <= MaxClock * 31 * 86400
    /\ now' = Dt(now.sec + 31 * 86400, now.usec)
    /\ pc' = "run_once"
    /\ UNCHANGED <<store, disk, last, run>>

NextInsiders ==
    \/ RunOnce(QuietApis)
    \/ RunWhaleCheck(WatchedTokenApis, InsiderTradeApis)
    \/ RunVolumeCheck(QuietApis)
    \/ Sleep
    \/ SleepMonth
    \/ Stop
    \/ Restart

SpecInsiders == Init /\ [][NextInsiders]_vars

---------------------------------------------------------------------------
(* Properties *)

SnapshotIds(snapshots) == {snapshots[i].outcome_id : i \in 1..Len(snapshots)}

\* the price of the last snapshot with this outcome id
LastPrice(snapshots, id) ==
    snapshots[CHOOSE i \in 1..Len(snapshots) :
        /\ snapshots[i].outcome_id = id
        /\ \A j \in (i + 1)..Len(snapshots) : snapshots[j].outcome_id # id].price

\* the outcomes the delivered messages announce as new markets
Announced(sent) == UNION {NewMarketIds(sent[i]) : i \in 1..Len(sent)}

Distinct(s) == \A i, j \in 1..Len(s) : s[i] = s[j] => i = j

NewMarketOnce ==
    \A o \in Outcomes :
        /\ run.nm_count[o] <= 1
        /\ run.nm_count[o] = 1 => run.first_obs[o] = "passed"
        /\ (run.first_obs[o] = "passed" /\ pc # "crashed") => run.nm_count[o] = 1

\* C1, as the code has it.  Within one process run an outcome is named in at
\* most one new-market notification; the notification is sent by the run_once
\* that observes the outcome for the first time (the store holds no state for
\* it), and only when that first snapshot passed the filter chain; once that
\* run_once has completed, such an outcome has been announced exactly once.
\* An outcome first observed failing the filters, or loaded from the state
\* file, is never announced, whatever its later prices.
C1_NewMarketAtFirstPassingObservation ==
    [][ /\ NewMarketOnce'
        /\ \A o \in Outcomes :
              run'.nm_count[o] > run.nm_count[o] =>
                  /\ pc = "run_once"
                  /\ o \notin DOMAIN store.state
                  /\ o \in SnapshotIds(last'.snapshots) ]_vars

\* an announced outcome is observed again by a later run_once, inside the
\* probability range, and is not announced again
C1_Witness ==
    /\ last.handler = "run_once"
    /\ last.exc = "none"
    /\ \E i \in 1..Len(last.snapshots) :
          /\ run.nm_count[last.snapshots[i].outcome_id] = 1
          /\ passes_filters(last.snapshots[i], config.filters, now)
          /\ last.snapshots[i].outcome_id \notin Announced(last.sent)

\* C1 as stated: every outcome a completed run_once has observed has been
\* announced as a new market exactly once.
C1_EveryOutcomeAnnouncedOnce ==
    (last.handler = "run_once" /\ last.exc = "none" /\ config.alerts.new_market.enabled)
        => \A o \in DOMAIN store.state \ run.loaded : run.nm_count[o] = 1

\* C2.  The processed trades are a bounded first-in first-out set: the deque
\* never holds more than its capacity, it is the last `capacity` ids of the
\* insertion log, has_processed_trade answers membership in exactly those,
\* and after capacity + 1 insertions of distinct ids the first id is no
\* longer reported and the other ones are; has_processed_trade changes
\* nothing.
C2_ProcessedTradesFifo ==
    LET held == Suffix(run.added, MaxProcessedTrades)
    IN /\ Len(store.processed_trades) <= MaxProcessedTrades
       /\ store.processed_trades = held
       /\ \A id \in StoreTradeIds : has_processed_trade(store, id) <=> id \in Range(held)
       /\ (Len(run.added) = MaxProcessedTrades + 1 /\ Distinct(run.added)) =>
              /\ ~has_processed_trade(store, run.added[1])
              /\ \A i \in 2..Len(run.added) : has_processed_trade(store, run.added[i])
       /\ last.handler = "has_processed_trade" =>
              last.ret = (last.args[1] \in Range(held))

\* capacity + 1 distinct ids were inserted and the first one is asked for
C2_Witness ==
    /\ Len(run.added) = MaxProcessedTrades + 1
    /\ Distinct(run.added)
    /\ last.handler = "has_processed_trade"
    /\ last.args[1] = run.added[1]
    /\ last.ret = FALSE

\* the step is a call of the store method op
Called(op) == run'.calls = run.calls + 1 /\ last'.handler = op

\* i stands before j when the wallets are sorted by first_seen, the order of
\* insertion deciding between equal first_seen
Older(ws, i, j) ==
    \/ DtLT(ws[i].first_seen, ws[j].first_seen)
    \/ (ws[i].first_seen = ws[j].first_seen /\ i < j)

\* C3.  When update_wallet adds a wallet to a table that is at its ceiling,
\* exactly one wallet leaves: it stands before every wallet that stays in
\* the order of first_seen (insertion order deciding ties), the table is
\* back at the ceiling, the wallets that stay keep their statistics, and
\* has_insider_alerted is false for the wallet that left, so that it can
\* alert again once it trades again.
C3_EvictionOfOldestWallet ==
    [][ LET address == last'.args[1]
            table == Append(store.wallet_stats,
                            [address |-> address, first_seen |-> now,
                             markets_traded |-> {"o1"}, total_volume |-> 6000])
            kept == Addresses(store'.wallet_stats)
            gone == Addresses(table) \ kept
        IN (/\ Called("update_wallet")
            /\ address \notin Addresses(store.wallet_stats)
            /\ Len(store.wallet_stats) = MaxWallets)
           => /\ Len(store'.wallet_stats) = MaxWallets
              /\ Cardinality(gone) = 1
              /\ \A i, j \in 1..Len(table) :
                    (table[i].address \in gone /\ table[j].address \in kept)
                        => Older(table, i, j)
              /\ store'.wallet_stats =
                    SelectSeq(table, LAMBDA w : w.address \in kept)
              /\ \A w \in gone : ~has_insider_alerted(store', w)
              /\ store'.insider_alerted = store.insider_alerted \ gone ]_vars

\* a wallet that was evicted with its insider flag set trades again: it is in
\* the table, which is at its ceiling, with the flag cleared
C3_Witness ==
    /\ last.handler = "update_wallet"
    /\ last.args[1] \in run.cleared
    /\ last.args[1] \in Addresses(store.wallet_stats)
    /\ ~has_insider_alerted(store, last.args[1])
    /\ Len(store.wallet_stats) = MaxWallets

\* C4.  upsert and mark_alerted keep every outcome's first_seen_timestamp; an
\* upsert that creates the state sets it to the clock's reading, and
\* last_seen_timestamp never goes back from one upsert to the next.
C4_FirstSeenFixedLastSeenMonotone ==
    [][ (Called("upsert") \/ Called("mark_alerted")) =>
          /\ \A o \in DOMAIN store.state :
                /\ o \in DOMAIN store'.state
                /\ store'.state[o].first_seen_timestamp
                      = store.state[o].first_seen_timestamp
                /\ DtLE(store.state[o].last_seen_timestamp,
                        store'.state[o].last_seen_timestamp)
          /\ \A o \in DOMAIN store'.state \ DOMAIN store.state :
                /\ Called("upsert") /\ last'.args[1] = o
                /\ store'.state[o].first_seen_timestamp = now
          /\ Called("upsert") =>
                store'.state[last'.args[1]].last_seen_timestamp = now ]_vars

\* an outcome created at one time, alerted later and upserted again later
C4_Witness ==
    /\ last.handler = "upsert"
    /\ LET st == store.state[last.args[1]]
       IN /\ DtLT(st.first_seen_timestamp, st.last_alerted_timestamp)
          /\ DtLT(st.last_alerted_timestamp, st.last_seen_timestamp)

\* C5 as stated: whatever happens during save(), the next load() reads a
\* complete saved state (the one before the save or the one it writes).
C5_SaveIsAtomic == load(disk).ok

\* C6.  Right after save(), load() of the file yields for every outcome id an
\* OutcomeState equal to the one saved, field by field, None staying None,
\* and the processed trade ids in the same order.
C6_SaveLoadRoundTrip ==
    last.handler = "save" =>
        LET loaded == load(disk)
        IN /\ loaded.ok
           /\ DOMAIN loaded.store.state = DOMAIN store.state
           /\ \A o \in DOMAIN store.state :
                 /\ loaded.store.state[o].last_seen_price
                       = store.state[o].last_seen_price
                 /\ loaded.store.state[o].last_seen_timestamp
                       = store.state[o].last_seen_timestamp
                 /\ loaded.store.state[o].last_alerted_timestamp
                       = store.state[o].last_alerted_timestamp
                 /\ loaded.store.state[o].first_seen_timestamp
                       = store.state[o].first_seen_timestamp
           /\ loaded.store.processed_trades = store.processed_trades

\* a save of two outcomes, one alerted and one never alerted, with a
\* timestamp that has microseconds, and of a processed trade
C6_Witness ==
    /\ last.handler = "save"
    /\ store.processed_trades # <<>>
    /\ \E o \in DOMAIN store.state :
          /\ store.state[o].last_alerted_timestamp # None
          /\ store.state[o].last_alerted_timestamp.usec # 0
    /\ \E o \in DOMAIN store.state : store.state[o].last_alerted_timestamp = None

\* every snapshot of the last scan has state with the price of the last
\* snapshot of its outcome
SnapshotsStored ==
    \A id \in SnapshotIds(last.snapshots) :
        /\ id \in DOMAIN store.state
        /\ store.state[id].last_seen_price = LastPrice(last.snapshots, id)

\* C7 as stated: after a run_once whose scan succeeded, every snapshot has
\* state in the store with the price of the last snapshot of its outcome.
C7_EverySnapshotStored ==
    (last.handler = "run_once" /\ last.scan_ok) => SnapshotsStored

Events(op) == {e[2] : e \in {x \in Range(last.trace) : x[1] = op}}

\* C8 as stated: a send() that fails does not reach the handlers.  The
\* process goes on; run_once has upserted every snapshot and saved the store;
\* the trade sub-cycle has marked processed every trade it evaluated and
\* saved the store.
C8_SendFailureStaysInNotifier ==
    ("send_failed" \in {e[1] : e \in Range(last.trace)}) =>
        /\ pc # "crashed"
        /\ last.exc = "none"
        /\ last.handler = "run_once" =>
              (SnapshotsStored /\ disk = save_payload(store))
        /\ last.handler = "run_whale_check" =>
              /\ \A id \in Events("evaluate") : has_processed_trade(store, id)
              /\ Events("save") # {}

\* the handler that follows h in main()'s loop
Following(h) ==
    IF h = "run_once" THEN "run_whale_check"
    ELSE IF h = "run_whale_check" THEN "run_volume_check"
    ELSE "sleep"

\* what holds after a handler in which a fetch exhausted its retries
ExhaustedRetries ==
    /\ ~last.scan_ok =>
          /\ last.trace = <<>> /\ last.sent = <<>> /\ last.exc = "none"
          /\ pc = Following(last.handler)
    /\ (last.handler = "run_once" /\ last.batch_failed # {}) =>
          /\ last.scan_ok
          /\ \A i \in 1..Len(last.snapshots) :
                MarketOf[last.snapshots[i].outcome_id] \in last.batch_failed
                    => last.snapshots[i].price = 50
          /\ last.exc = "none" =>
                /\ SnapshotIds(last.snapshots) \subseteq Events("upsert")
                /\ Events("save") # {}
                /\ pc = "run_whale_check"
    /\ (last.handler = "run_whale_check" /\ last.trades_failed # {}) =>
          /\ last.scan_ok
          /\ last.exc = "none" =>
                /\ Events("save") # {}
                /\ pc = "run_volume_check"

C10_NoRepeatAfterRestart ==
    /\ \A o \in run.loaded :
          /\ run.nm_count[o] = 0
          /\ o \notin Announced(last.sent)
    /\ \A id \in run.loaded_trades :
          /\ has_processed_trade(store, id)
          /\ id \notin Events("evaluate")
          /\ \A i \in 1..Len(last.sent) : last.sent[i].key # id

\* after a restart a run_once observes, inside the probability range, an
\* outcome the file held, and the trade sub-cycle has met a trade the file
\* held
C10_Witness ==
    /\ last.handler = "run_once"
    /\ last.exc = "none"
    /\ \E i \in 1..Len(last.snapshots) :
          /\ last.snapshots[i].outcome_id \in run.loaded
          /\ passes_filters(last.snapshots[i], config.filters, now)
    /\ run.skipped \cap run.loaded_trades # {}

(***************************************************************************)
(* Properties of the alert rules and the filters                           *)
(***************************************************************************)
\* the call recorded in last is a call of the rule or filter op
RuleCalled(op) == pc = "called" /\ last.handler = op

\* the prior observation carries a price and a time
Observed(existing_state) ==
    /\ existing_state # NoState
    /\ existing_state.last_seen_price # NonePrice
    /\ existing_state.last_seen_timestamp # None

\* the prior observation is older than the lookback, in microseconds
Stale(existing_state, cfg, t) ==
    (t.sec - existing_state.last_seen_timestamp.sec) * 1000000
        + (t.usec - existing_state.last_seen_timestamp.usec)
      > cfg.lookback_minutes * 60 * 1000000

\* C11: the price spike rule returns no message whenever the prior
\* observation was last seen longer ago than lookback_minutes, whatever the
\* prior price, the new price and the thresholds are.
C11_StaleObservationNoSpike ==
    (/\ RuleCalled("price_spike")
     /\ Observed(last.args[2])
     /\ Stale(last.args[2], last.args[3], last.args[4]))
        => last.ret = NoMessage

\* a stale prior of 0.10 against a new price of 0.95 with both thresholds set
C11_Witness ==
    /\ RuleCalled("price_spike")
    /\ Observed(last.args[2])
    /\ Stale(last.args[2], last.args[3], last.args[4])
    /\ last.args[3].enabled
    /\ last.args[3].percent_change = 20
    /\ last.args[3].absolute_change = 10
    /\ last.args[2].last_seen_price = 10
    /\ last.args[1].price = 95
    /\ last.ret = NoMessage

\* the bounds a probability config written as fractions or as percentages
\* with a bound above 1 stands for
FractionForm(probability_config, f) ==
    /\ probability_config.min = f.min
    /\ probability_config.max = f.max

PercentageForm(probability_config, f) ==
    /\ probability_config.min = 100 * f.min
    /\ probability_config.max = 100 * f.max

\* C12: with the rule enabled and a prior last-seen price, range entry fires
\* exactly when the prior price was strictly above the normalized upper bound
\* and the new price lies within [min, max]; not when the prior price was
\* inside or below the range.
C12_RangeEntryFromAbove ==
    (/\ RuleCalled("range_entry")
     /\ last.args[3].enabled
     /\ last.args[2] # NoState
     /\ last.args[2].last_seen_price # NonePrice
     /\ \/ FractionForm(last.args[4], last.args[5])
        \/ PercentageForm(last.args[4], last.args[5]) /\ last.args[5].max > 1)
        => (last.ret # NoMessage <=>
              /\ last.args[2].last_seen_price > last.args[5].max
              /\ last.args[5].min <= last.args[1].price
              /\ last.args[1].price <= last.args[5].max)

\* 0.95 before, 0.80 now, the range [0.70, 0.90]: the rule fires
C12_Witness ==
    /\ RuleCalled("range_entry")
    /\ last.args[3].enabled
    /\ last.args[2] # NoState
    /\ last.args[2].last_seen_price = 95
    /\ last.args[1].price = 80
    /\ last.args[5] = [min |-> 70, max |-> 90]
    /\ last.ret # NoMessage

\* what the probability filter and the range entry rule decide for the call
\* in last when the bounds are written as the fractions f
WithFractions ==
    IF last.handler = "probability_passes"
    THEN probability_passes(last.args[1],
             [AsFractions(last.args[3]) EXCEPT !.enabled = last.args[2].enabled])
    ELSE range_entry_evaluate(last.args[1], last.args[2], last.args[3],
                              AsFractions(last.args[5]))

\* the call in last was given its bounds as percentages
WithPercentages ==
    \/ /\ RuleCalled("probability_passes")
       /\ PercentageForm(last.args[2], last.args[3])
    \/ /\ RuleCalled("range_entry")
       /\ PercentageForm(last.args[4], last.args[5])

\* the fractions the bounds of the call in last stand for
BoundsCalled ==
    IF last.handler = "probability_passes" THEN last.args[3] ELSE last.args[5]

\* C13: bounds written as percentages {min: 100a, max: 100b} decide every
\* price as the fractions {min: a, max: b} do, in the probability filter and
\* in range entry, provided one of the percentages exceeds 1.
C13_PercentagesAsFractions ==
    (WithPercentages /\ BoundsCalled.max > 1) => last.ret = WithFractions

\* C13 as stated: percentages decide as the fractions do for all a and b
C13_AsStated ==
    WithPercentages => last.ret = WithFractions

\* the price 0.80 passes {min: 70, max: 90}
C13_Witness ==
    /\ RuleCalled("probability_passes")
    /\ PercentageForm(last.args[2], last.args[3])
    /\ last.args[2].enabled
    /\ last.args[3] = [min |-> 70, max |-> 90]
    /\ last.args[1].price = 80
    /\ last.ret = TRUE

\* the four filters of the chain
FilterNames == {"probability", "time_to_resolution", "liquidity", "volume"}

\* C18: an outcome passes the chain exactly when every enabled filter
\* passes; a filter with enabled false passes every snapshot; the enabled
\* time-to-resolution filter fails every snapshot without a resolution time.
C18_ChainOfEnabledFilters ==
    RuleCalled("passes_filters") =>
        /\ last.ret.chain <=>
             \A name \in FilterNames : last.args[2][name].enabled => last.ret[name]
        /\ \A name \in FilterNames : ~last.args[2][name].enabled => last.ret[name]
        /\ (last.args[2].time_to_resolution.enabled
              /\ last.args[1].resolution_time = None)
             => ~last.ret.time_to_resolution

\* a price outside the bounds passes the chain with the probability filter
\* disabled and the time-to-resolution filter enabled
C18_Witness ==
    /\ RuleCalled("passes_filters")
    /\ ~last.args[2].probability.enabled
    /\ last.args[2].time_to_resolution.enabled
    /\ ~probability_passes(last.args[1],
            [last.args[2].probability EXCEPT !.enabled = TRUE])
    /\ last.ret.chain

\* the thresholds met by a move from the prior price to the new price
PercentMet(outcome, existing_state, cfg) ==
    /\ cfg.percent_change # 0
    /\ Abs(outcome.price - existing_state.last_seen_price) * 100
         >= cfg.percent_change * Abs(existing_state.last_seen_price)

AbsoluteMet(outcome, existing_state, cfg) ==
    /\ cfg.absolute_change # NonePrice
    /\ Abs(outcome.price - existing_state.last_seen_price) >= cfg.absolute_change

\* C19: with the rule enabled and a prior observation within the lookback,
\* price spike fires exactly when the prior price is non-zero and the
\* configured non-zero percent threshold or the configured absolute threshold
\* is reached; either alone suffices, and with neither it never fires.
C19_SpikeOnEitherThreshold ==
    (/\ RuleCalled("price_spike")
     /\ last.args[3].enabled
     /\ Observed(last.args[2])
     /\ ~Stale(last.args[2], last.args[3], last.args[4]))
        => (last.ret # NoMessage <=>
              /\ last.args[2].last_seen_price # 0
              /\ \/ PercentMet(last.args[1], last.args[2], last.args[3])
                 \/ AbsoluteMet(last.args[1], last.args[2], last.args[3]))

\* 0.10 to 0.15 is 50 percent and less than 0.10: the percent threshold alone
C19_Witness ==
    /\ RuleCalled("price_spike")
    /\ last.args[3].enabled
    /\ Observed(last.args[2])
    /\ ~Stale(last.args[2], last.args[3], last.args[4])
    /\ last.args[3].absolute_change = 10
    /\ PercentMet(last.args[1], last.args[2], last.args[3])
    /\ ~AbsoluteMet(last.args[1], last.args[2], last.args[3])
    /\ last.ret # NoMessage

\* C20 as stated: the enabled whale trade rule fires exactly when size and
\* price are numbers with size * price >= min_usd, and a size or price that
\* is no number gives no message.
C20_AsStated ==
    (RuleCalled("whale_trade") /\ last.args[2].enabled)
        => (last.ret # NoMessage <=>
              /\ last.args[1].numeric
              /\ ~last.args[1].is_nan
              /\ last.args[1].size * last.args[1].price
                   >= last.args[2].min_usd * 100)

(***************************************************************************)
(* Properties of the volume history                                        *)
(***************************************************************************)
\* the sample p was taken more than the given seconds before the call in last
OlderThan(p, seconds) ==
    \/ last.args[4].sec - p.ts.sec > seconds
    \/ last.args[4].sec - p.ts.sec = seconds /\ last.args[4].usec > p.ts.usec

\* the samples of the market of the call in last that lie in the baseline
\* interval: more than window_minutes and at most baseline_days old
BaselinePoints ==
    IF last.args[1] \notin DOMAIN store.volume_history THEN <<>>
    ELSE SelectSeq(store.volume_history[last.args[1]],
            LAMBDA p : /\ OlderThan(p, last.args[2] * 60)
                       /\ ~OlderThan(p, last.args[3] * 86400))

BaselineSpan ==
    (BaselinePoints[Len(BaselinePoints)].ts.sec - BaselinePoints[1].ts.sec) * 1000000
        + BaselinePoints[Len(BaselinePoints)].ts.usec - BaselinePoints[1].ts.usec

BaselineChange == BaselinePoints[Len(BaselinePoints)].vol - BaselinePoints[1].vol

\* C14: get_volume_baseline returns 0 when fewer than two samples lie in the
\* baseline interval, when the span of those samples is not positive or their
\* change of volume is not positive, and never returns a negative value,
\* whatever was recorded, falling volumes included.
C14_BaselineNonNegative ==
    last.handler = "get_volume_baseline" =>
        /\ last.ret.den > 0
        /\ last.ret.num >= 0
        /\ Len(BaselinePoints) < 2 => last.ret.num = 0
        /\ (Len(BaselinePoints) >= 2 /\ (BaselineSpan <= 0 \/ BaselineChange <= 0))
             => last.ret.num = 0

\* two samples half a minute apart in the baseline interval, the later one
\* lower than the earlier one
C14_Witness ==
    /\ last.handler = "get_volume_baseline"
    /\ Len(BaselinePoints) >= 2
    /\ BaselineSpan > 0
    /\ BaselineChange < 0
    /\ last.ret.num = 0

(***************************************************************************)
(* Properties of the processed trade ids, continued                        *)
(***************************************************************************)
\* C15: add_processed_trade is idempotent: adding an id that is already
\* processed changes nothing in the store and evicts nothing, also when the
\* deque is at capacity.
C15_AddProcessedTradeIdempotent ==
    [][(/\ last'.handler = "add_processed_trade"
        /\ run'.calls = run.calls + 1
        /\ has_processed_trade(store, last'.args[1]))
          => store' = store]_vars

\* an id held by the full deque has just been added again
C15_Witness ==
    /\ last.handler = "add_processed_trade"
    /\ Len(store.processed_trades) = MaxProcessedTrades
    /\ Len(run.added) >= MaxProcessedTrades
    /\ run.added[Len(run.added)] # last.args[1]
    /\ has_processed_trade(store, last.args[1])

(***************************************************************************)
(* Properties of the trade sub-cycle                                       *)
(***************************************************************************)
\* C16 as stated: a wallet that has received an insider alert receives no
\* further one, in any later trade or cycle, until size eviction or age
\* pruning removes the wallet.
C16_OneInsiderAlertPerWallet ==
    run.insider_repeated = {}

\* the ids and the wallets of the trades offered to the sub-cycle that were
\* not processed before it
FreshKeys(offered, processed) ==
    UNION {{WatchedTrades["o1"][i].id, trade_wallet(WatchedTrades["o1"][i])} :
              i \in {j \in 1..Len(WatchedTrades["o1"]) :
                        /\ WatchedTrades["o1"][j].id \in offered
                        /\ WatchedTrades["o1"][j].id \notin processed}}

\* C17: check_trades skips a trade whose id is reported as processed, with no
\* wallet update, no whale alert and no insider alert for it, and when a
\* check_trades run completes every fetched trade with a non-empty id is
\* recorded as processed, whether or not it produced an alert.
C17_ProcessedTradesSkippedAndRecorded ==
    [][last'.handler = "run_whale_check" =>
        /\ \A id \in store.processed_trades_set :
              id \in last'.args[1] =>
                  /\ Event("evaluate", id) \notin Range(last'.trace)
                  /\ last'.exc = "none" => Event("skip", id) \in Range(last'.trace)
        /\ \A e \in Range(last'.trace) :
              e[1] \in {"evaluate", "update_wallet", "send", "send_failed", "processed"}
                  => e[2] \in FreshKeys(last'.args[1], store.processed_trades_set)
        /\ last'.args[1] \subseteq store.processed_trades_set =>
              (store' = store /\ last'.sent = <<>>)
        /\ last'.exc = "none" =>
              \A id \in last'.args[1] \ {""} : has_processed_trade(store', id)]_vars

\* a run that skipped a processed trade and recorded a trade that brought no
\* alert
C17_Witness ==
    /\ last.handler = "run_whale_check"
    /\ last.exc = "none"
    /\ Event("skip", "t1") \in Range(last.trace)
    /\ Event("evaluate", "t2") \in Range(last.trace)
    /\ last.sent = <<>>
    /\ has_processed_trade(store, "t2")

\* what the sub-cycle did for the trade id, from its evaluation to the next
\* trade: the events of the trace after Event("evaluate", id)
TradeEvents(trace, id) ==
    {trace[j] : j \in {n \in 1..Len(trace) :
        \E i \in 1..(n - 1) :
            /\ trace[i] = Event("evaluate", id)
            /\ \A k \in (i + 1)..n :
                  trace[k][1] \notin {"evaluate", "skip", "save", "save_killed"}}}

\* the ids of the malformed trades of the CLOB
MalformedIds ==
    {MalformedTrades[o][i].id : o \in {"o1"}, i \in {1}}
    \cup {MalformedTrades[o][i].id : o \in {"o2"}, i \in {1}}

\* C21 as stated: in the trade sub-cycle a malformed trade record sends no
\* alert and adds no volume to any wallet (the first wallet trades malformed
\* records only), and the other trades of the batch and of later markets are
\* processed.
C21_MalformedTradeSkipped ==
    [][last'.handler = "run_whale_check" =>
        /\ \A id \in MalformedIds :
              \A e \in TradeEvents(last'.trace, id) :
                  e[1] \notin {"send", "send_failed"}
        /\ \A i \in 1..Len(store'.wallet_stats) :
              store'.wallet_stats[i].address = "w1"
                  => store'.wallet_stats[i].total_volume = 0
        /\ last'.exc = "none" =>
              \A id \in last'.args[1] : has_processed_trade(store', id)]_vars

\* a >= b of floats: false of a NaN
FloatGE(a, b) == a # NaN /\ a >= b

\* the wallet's age at the call is strictly below new_wallet_age_hours
YoungWallet(wallet_stats, cfg, t) ==
    DtLT(t, Dt(wallet_stats.first_seen.sec + cfg.new_wallet_age_hours * 3600,
               wallet_stats.first_seen.usec))

\* C22 as stated: the enabled insider rule fires exactly when the wallet has
\* a first-seen time, its age is strictly below new_wallet_age_hours, it has
\* traded at most one distinct market when single_market_focus is on, and
\* its cumulative volume is at least min_volume_usd; with no first-seen time
\* it never fires.
C22_AsStated ==
    (RuleCalled("insider_detection") /\ last.args[2].enabled)
        => (last.ret # NoMessage <=>
              /\ last.args[1].first_seen # None
              /\ YoungWallet(last.args[1], last.args[2], last.args[3])
              /\ last.args[2].single_market_focus
                    => Cardinality(last.args[1].markets_traded) <= 1
              /\ FloatGE(last.args[1].total_volume, last.args[2].min_volume_usd))

\* C23: the enabled volume spike rule fires exactly when the baseline is
\* strictly positive and (current - baseline) / baseline * 100 reaches the
\* percent threshold; a zero or negative baseline never fires.
C23_VolumeSpikeOverPositiveBaseline ==
    (RuleCalled("volume_spike") /\ last.args[3].enabled)
        => LET current == last.args[1]
               baseline == last.args[2]
           IN /\ last.ret # NoMessage <=>
                    /\ baseline.num > 0
                    /\ (current * baseline.den - baseline.num) * 100
                          >= last.args[3].percent_change * baseline.num
              /\ baseline.num <= 0 => last.ret = NoMessage

\* a current volume of 30 over a baseline of 10 is exactly 200 percent
C23_Witness ==
    /\ RuleCalled("volume_spike")
    /\ last.args[3].enabled
    /\ last.args[3].percent_change = 200
    /\ last.args[1] = 30
    /\ last.args[2] = [num |-> 10, den |-> 1]
    /\ last.ret # NoMessage

\* C24: update_wallet with an empty address returns nothing and leaves the
\* store as it was; with a wallet the table does not hold it creates the
\* statistics (first seen now, the one market, the one value), and with a
\* wallet it holds it keeps first_seen, adds usd_value to the total volume
\* and the market to the markets traded, none of which is lost.  Nothing
\* else of the store changes but the table and the insider flags of evicted
\* wallets.
C24_UpdateWalletOnlyAdds ==
    [][ Called("update_wallet") =>
        LET address == last'.args[1]
            token_id == last'.args[2]
            usd_value == last'.args[3]
            i == WalletIndex(store.wallet_stats, address)
            j == WalletIndex(store'.wallet_stats, address)
        IN IF address = ""
           THEN last'.ret = NoState /\ store' = store
           ELSE /\ j # 0 /\ store'.wallet_stats[j] = last'.ret
                /\ i = 0 =>
                      last'.ret = [address |-> address, first_seen |-> now,
                                   markets_traded |-> {token_id},
                                   total_volume |-> usd_value]
                /\ i # 0 =>
                      /\ last'.ret.first_seen = store.wallet_stats[i].first_seen
                      /\ last'.ret.total_volume =
                            FloatAdd(store.wallet_stats[i].total_volume, usd_value)
                      /\ last'.ret.markets_traded =
                            store.wallet_stats[i].markets_traded \cup {token_id}
                /\ store'.state = store.state
                /\ store'.processed_trades = store.processed_trades
                /\ store'.volume_history = store.volume_history
                /\ store'.insider_alerted \subseteq store.insider_alerted ]_vars

\* a wallet that traded o1 trades o2: both markets, the sum of the values,
\* and the time of the first trade
C24_Witness ==
    /\ last.handler = "update_wallet"
    /\ last.args = <<"w1", "o2", 6000>>
    /\ last.ret.markets_traded = {"o1", "o2"}
    /\ last.ret.total_volume = 12000
    /\ DtLT(last.ret.first_seen, now)

\* update_wallet("") on a store that holds wallets
C24_WitnessEmptyAddress ==
    /\ last.handler = "update_wallet"
    /\ last.args[1] = ""
    /\ last.ret = NoState
    /\ Len(store.wallet_stats) = MaxWallets

\* a load() has just returned or raised
Loaded == last.handler = "load" /\ pc \in {"run_once", "load_failed"}

\* the other on-disk shape of the same outcomes
Reshaped(file) ==
    IF file.kind = "flat"
    THEN [kind |-> "wrapped", outcomes |-> file.outcomes, processed_trades |-> <<>>]
    ELSE [kind |-> "flat", outcomes |-> file.outcomes]

\* C25 as stated: load() starts with an empty store when the file is missing
\* or empty and raises on malformed data; a store it returns never holds only
\* a part of the outcomes of the file.
C25_AsStated ==
    Loaded =>
        /\ disk.kind \in {"missing", "empty"} => (pc = "run_once" /\ store = EmptyStore)
        /\ disk.kind = "torn" => pc = "load_failed"
        /\ (disk.kind \in {"flat", "wrapped"} /\ Unreadable(disk.outcomes) # {})
              => pc = "load_failed"
        /\ (disk.kind \in {"flat", "wrapped"} /\ pc = "run_once")
              => DOMAIN store.state = DOMAIN disk.outcomes

\* C26: load() reads the flat mapping and the wrapped form of the same
\* outcomes into the same OutcomeState map (and raises on the one exactly
\* when it raises on the other); the flat form gives no processed trade, the
\* wrapped form the ids it lists.
C26_BothShapesLoadAlike ==
    (Loaded /\ disk.kind \in {"flat", "wrapped"}) =>
        /\ store.state = load(Reshaped(disk)).store.state
        /\ (pc = "run_once") = load(Reshaped(disk)).ok
        /\ disk.kind = "flat" =>
              store.processed_trades = <<>> /\ store.processed_trades_set = {}
        /\ disk.kind = "wrapped" =>
              /\ store.processed_trades = disk.processed_trades
              /\ store.processed_trades_set = Range(disk.processed_trades)

\* a flat file of two outcomes has been loaded
C26_Witness ==
    /\ Loaded
    /\ pc = "run_once"
    /\ disk.kind = "flat"
    /\ DOMAIN store.state = {"o1", "o2"}
    /\ store.state["o2"].last_seen_timestamp = Dt(5, 7)
    /\ store.state["o1"].last_alerted_timestamp = None

RECURSIVE Iterations(_, _)
Iterations(trace, open) ==
    IF trace = <<>> THEN (IF open = <<>> THEN <<>> ELSE <<open>>)
    ELSE IF Head(trace)[1] = "upsert"
    THEN <<Append(open, Head(trace))>> \o Iterations(Tail(trace), <<>>)
    ELSE Iterations(Tail(trace), Append(open, Head(trace)))

\* the snapshots of the last scan cycle that the filter chain refuses
Refused(i) == ~passes_filters(last.snapshots[i], config.filters, now)

ScanCycle == pc = "run_once" /\ last'.handler = "run_once" /\ last'.scan_ok

\* the snapshots of that cycle that reach the new-market batch: they pass the
\* filters and their outcome has no state, neither from before the cycle nor
\* from an earlier snapshot of the cycle
Grouped(i) ==
    /\ passes_filters(last'.snapshots[i], config.filters, now)
    /\ last'.snapshots[i].outcome_id \notin DOMAIN store.state
    /\ \A j \in 1..(i - 1) :
          last'.snapshots[j].outcome_id # last'.snapshots[i].outcome_id

\* main.py:114: outcome.event_title or outcome.market_id
GroupKey(i) ==
    IF last'.snapshots[i].event_title # "" THEN last'.snapshots[i].event_title
    ELSE last'.snapshots[i].market_id

\* the positions in the trace
At(trace, op, key) == {p \in 1..Len(trace) : trace[p] = Event(op, key)}

\* new-market alerting being enabled, in every scan cycle: no message names
\* a grouped outcome alone as a new market; for each group key there is
\* exactly one batched message; each is sent after all snapshots of the
\* cycle have been upserted; and each grouped outcome is marked alerted after
\* the message of its group
BatchedNewMarkets ==
    LET S == {i \in 1..Len(last'.snapshots) : Grouped(i)}
        ups == {p \in 1..Len(last'.trace) : last'.trace[p][1] = "upsert"}
    IN /\ \A m \in Range(last'.sent) : m.kind # "new_market"
       /\ Cardinality(ups) = Len(last'.snapshots)
       /\ \A i \in S :
             LET id == last'.snapshots[i].outcome_id
                 batches == {n \in 1..Len(last'.sent) :
                                /\ last'.sent[n].kind = "new_market_batch"
                                /\ last'.sent[n].key = GroupKey(i)}
             IN /\ Cardinality(batches) = 1
                /\ \A n \in batches : id \in Range(last'.sent[n].ids)
                /\ Cardinality(At(last'.trace, "send", GroupKey(i))) = 1
                /\ \A p \in At(last'.trace, "send", GroupKey(i)) :
                      /\ \A q \in ups : q < p
                      /\ \E q \in At(last'.trace, "mark_alerted", id) : p < q
                /\ store'.state[id].last_alerted_timestamp = now
       /\ \A n \in 1..Len(last'.sent) :
             last'.sent[n].kind = "new_market_batch" =>
                 \E i \in S : last'.sent[n].key = GroupKey(i)

\* C29 as stated: in every scan cycle the outcomes that pass the filters and
\* have no prior state are announced by exactly one batched new-market
\* message per group key, sent after every snapshot of the cycle has been
\* upserted, and are then marked alerted; none is announced alone.
C29_AsStated ==
    [][ (ScanCycle /\ config.alerts.new_market.enabled) => BatchedNewMarkets ]_vars

\* the snapshots of a scan cycle that reach the stateful rules: they pass the
\* filters and their outcome, listed once in the cycle, has state in the store
Known(i) ==
    /\ passes_filters(last'.snapshots[i], config.filters, now)
    /\ last'.snapshots[i].outcome_id \in DOMAIN store.state
    /\ \A j \in 1..Len(last'.snapshots) :
          last'.snapshots[j].outcome_id = last'.snapshots[i].outcome_id => j = i

\* the messages of price spike and range entry, in this order, for the i-th
\* snapshot judged against the state the store held before the cycle
Due(i) ==
    LET outcome == last'.snapshots[i]
        existing_state == store.state[outcome.outcome_id]
    IN SelectSeq(
          << price_spike_evaluate(outcome, existing_state,
                                  config.alerts.price_spike, now),
             range_entry_evaluate(outcome, existing_state,
                                  config.alerts.range_entry,
                                  config.filters.probability) >>,
          LAMBDA m : m # NoMessage)

\* send and mark_alerted for each message, then the upsert
RECURSIVE Alerting(_, _)
Alerting(messages, id) ==
    IF messages = <<>> THEN <<Event("upsert", id)>>
    ELSE <<Event("send", Head(messages).key), Event("mark_alerted", id)>>
            \o Alerting(Tail(messages), id)

\* C30 as stated: in every scan cycle, for each snapshot that passes the
\* filters and whose outcome has prior state, the messages of price spike
\* and range entry against that prior state are all sent, price spike first,
\* and the snapshot is upserted after them.
C30_AsStated ==
    [][ ScanCycle =>
        \A i \in 1..Len(last'.snapshots) :
           Known(i) =>
              LET id == last'.snapshots[i].outcome_id
                  its == Iterations(last'.trace, <<>>)
              IN /\ i <= Len(its)
                 /\ its[i] = Alerting(Due(i), id)
                 /\ SelectSeq(last'.sent, LAMBDA m : m.key = id) = Due(i)
                 /\ store'.state[id].last_seen_price = last'.snapshots[i].price ]_vars

\* how far a retry loop has got: at most max_retries attempts, the k-th
\* failed attempt followed by a sleep of retry_backoff_seconds * k while
\* another attempt is left
RetryBounded ==
    LET max_retries == last.args[1]
        backoff == last.args[2]
        st == last.ret
    IN /\ st.attempt <= max_retries
       /\ \A k \in 1..Len(st.sleeps) : st.sleeps[k] = backoff * k
       /\ Len(st.sleeps) < max_retries \/ max_retries = 0
       /\ Len(st.sleeps) = (IF st.outcome = "running" \/ st.attempt = 0
                            THEN st.attempt ELSE st.attempt - 1)
       /\ now.sec = backoff * SeqSum([k \in 1..Len(st.sleeps) |-> k])

\* how a retry loop ends: at the first request that succeeds, or after
\* max_retries failed requests; then the market fetch raises, the price and
\* trade fetches give up without an error; what it did is what retry_loop
\* tells the callers
RetryEnded ==
    LET max_retries == last.args[1]
        fails == last.args[3]
        st == last.ret
        r == retry_loop(fails, max_retries)
    IN pc = "called" =>
          /\ st.outcome = "returned" <=> (st.attempt = fails + 1 /\ fails < max_retries)
          /\ st.outcome \in {"raised", "gave_up"} <=>
                (max_retries > 0 /\ st.attempt = max_retries /\ fails >= max_retries)
          /\ st.outcome = "raised" => last.handler = "fetch_active_markets"
          /\ st.outcome = "gave_up" => last.handler # "fetch_active_markets"
          /\ st.outcome = "returned_empty" <=> max_retries = 0
          /\ r.ok = (st.outcome = "returned")
          /\ r.attempts = st.attempt
          /\ r.sleeps = [k \in 1..Len(st.sleeps) |-> k]

C32_FailedScanChangesNothing ==
    [][ (pc = "run_once" /\ last'.handler = "run_once" /\ ~last'.scan_ok) =>
           /\ store' = store
           /\ disk' = disk
           /\ last'.sent = <<>>
           /\ last'.trace = <<>>
           /\ last'.exc = "none"
           /\ run'.nm_count = run.nm_count
           /\ run'.first_obs = run.first_obs
           /\ pc' = "run_whale_check" ]_vars

\* a failed scan in a process whose store holds an alerted outcome, saved by
\* an earlier cycle
C32_Witness ==
    /\ last.handler = "run_once"
    /\ ~last.scan_ok
    /\ pc = "run_whale_check"
    /\ "o1" \in DOMAIN store.state
    /\ store.state["o1"].last_alerted_timestamp # None
    /\ disk = save_payload(store)

\* C33: the membership set has_processed_trade reads holds exactly the ids
\* of the deque, and the deque holds no id twice, after every
\* add_processed_trade and after load() of every file save() has written.
C33_SetMirrorsDeque ==
    /\ store.processed_trades_set = Range(store.processed_trades)
    /\ Distinct(store.processed_trades)
    /\ Len(store.processed_trades) <= MaxProcessedTrades
    /\ \A id \in StoreTradeIds :
          has_processed_trade(store, id) <=>
              \E i \in 1..Len(store.processed_trades) : store.processed_trades[i] = id

\* a store loaded from a file that was saved after the deque had overflowed:
\* the first id is out of the deque and of the set
C33_Witness ==
    /\ last.handler = "load"
    /\ Len(store.processed_trades) = MaxProcessedTrades
    /\ Len(run.added) = MaxProcessedTrades
    /\ disk.kind = "wrapped"
    /\ disk.processed_trades = store.processed_trades
    /\ "t1" \notin Range(store.processed_trades)
    /\ ~has_processed_trade(store, "t1")

(***************************************************************************)
(* Properties of the wallet volumes over repeated trade sub-cycles         *)
(***************************************************************************)
\* the USD values of the trades the CLOB holds for the first token whose
\* wallet is the address, each trade once
VolumeOfTrades(address) ==
    SeqSum([i \in 1..Len(WatchedTrades["o1"]) |->
        IF trade_wallet(WatchedTrades["o1"][i]) = address
        THEN calc_usd_value(WatchedTrades["o1"][i]) ELSE 0])

\* C34 as stated: each trade adds its USD value to its wallet's cumulative
\* volume at most once over any sequence of trade sub-cycles in which it is
\* fetched repeatedly, cycles aborted between the wallet update and the
\* recording of the trade id included; so no wallet's total_volume exceeds
\* the sum of the values of its distinct trades.
C34_AsStated ==
    \A i \in 1..Len(store.wallet_stats) :
        store.wallet_stats[i].total_volume
            <= VolumeOfTrades(store.wallet_stats[i].address)

(***************************************************************************)
(* Properties of Range-Entry over the scan cycles                          *)
(***************************************************************************)
\* a Range-Entry message for the outcome is among those the handler sent
RangeSent(sent, o) ==
    \E n \in 1..Len(sent) : sent[n].kind = "range_entry" /\ sent[n].key = o

\* the price lies inside the normalized probability range
InRange(price) ==
    /\ normalize_bounds(config.filters.probability).min <= price
    /\ price <= normalize_bounds(config.filters.probability).max

\* the snapshots list the outcome exactly once
ListedOnce(snapshots, o) ==
    Cardinality({i \in 1..Len(snapshots) : snapshots[i].outcome_id = o}) = 1

\* C35: within one process, a scan cycle sends Range-Entry for an outcome
\* it lists once only when the price stored before the cycle was above the
\* upper bound, and the price stored after it lies inside [min, max]; a
\* cycle listing the outcome more than once sends it only when the stored
\* price or a snapshot of the cycle was above the bound; and nothing but a
\* scan cycle changes the stored outcomes of the process.  So Range-Entry is
\* not sent for an outcome in two consecutive cycles that list it once.
C35_RangeEntryRearmedFromAbove ==
    [][ /\ ScanCycle =>
            \A o \in Outcomes :
               RangeSent(last'.sent, o) =>
                  /\ o \in DOMAIN store'.state
                  /\ \/ /\ o \in DOMAIN store.state
                        /\ store.state[o].last_seen_price >
                              normalize_bounds(config.filters.probability).max
                     \/ \E i \in 1..Len(last'.snapshots) :
                           /\ last'.snapshots[i].outcome_id = o
                           /\ last'.snapshots[i].price >
                                 normalize_bounds(config.filters.probability).max
                  /\ ListedOnce(last'.snapshots, o) =>
                        /\ o \in DOMAIN store.state
                        /\ store.state[o].last_seen_price >
                              normalize_bounds(config.filters.probability).max
                        /\ InRange(store'.state[o].last_seen_price)
        /\ (~ScanCycle /\ last'.handler # "load") =>
               store'.state = store.state ]_vars

\* a cycle listed the outcome once and sent Range-Entry for it: its stored
\* price is the new one, inside the range, and the cycle saved it
C35_Witness ==
    /\ last.handler = "run_once"
    /\ last.exc = "none"
    /\ RangeSent(last.sent, "o1")
    /\ ListedOnce(last.snapshots, "o1")
    /\ store.state["o1"].last_seen_price = 50
    /\ disk = save_payload(store)

\* C35 as stated: after a scan cycle in which Range-Entry fires for an
\* outcome, the stored last-seen price of the outcome lies inside
\* [min, max], so that the next cycle cannot fire for it.
C35_AsStated ==
    [][ ScanCycle =>
           \A o \in Outcomes :
              RangeSent(last'.sent, o) =>
                 /\ o \in DOMAIN store'.state
                 /\ InRange(store'.state[o].last_seen_price) ]_vars

(***************************************************************************)
(* Properties of the volume sub-cycle                                      *)
(***************************************************************************)
\* a step that is a volume sub-cycle whose scan succeeded
VolumeCycle ==
    pc = "run_volume_check" /\ last'.handler = "run_volume_check" /\ last'.scan_ok

\* the history the store held for the market before the cycle
HistoryOf(m) ==
    IF m \in DOMAIN store.volume_history THEN store.volume_history[m] ELSE <<>>

\* the sample of the cycle: the volume of the first snapshot of the market
SampleOf(m) ==
    [ts |-> now,
     vol |-> last'.snapshots[CHOOSE i \in 1..Len(last'.snapshots) :
                /\ last'.snapshots[i].market_id = m
                /\ \A j \in 1..(i - 1) : last'.snapshots[j].market_id # m].volume]

\* the sample lies inside the baseline interval of the cycle
InBaseline(p) ==
    /\ DtLE(DtMinusSec(now, VolumeConfig.alerts.volume_spike.baseline_days * 86400),
            p.ts)
    /\ DtLT(p.ts,
            DtMinusSec(now, VolumeConfig.alerts.volume_spike.lookback_minutes * 60))

\* what the cycle did for the market: one sample recorded, one evaluation,
\* at most one alert; the history after the cycle is the one before it with
\* some of its oldest samples dropped, none of them inside the baseline
\* interval, followed by the sample of the cycle; and it is ordered by time
OncePerMarket(m) ==
    /\ Cardinality(At(last'.trace, "record_volume", m)) = 1
    /\ Cardinality(At(last'.trace, "evaluate_volume", m)) = 1
    /\ Cardinality({n \in 1..Len(last'.sent) : last'.sent[n].key = m}) <= 1
    /\ m \in DOMAIN store'.volume_history
    /\ \E k \in 0..Len(HistoryOf(m)) :
          /\ store'.volume_history[m] =
                Append(SubSeq(HistoryOf(m), k + 1, Len(HistoryOf(m))), SampleOf(m))
          /\ \A i \in 1..k : ~InBaseline(HistoryOf(m)[i])
    /\ \A i, j \in 1..Len(store'.volume_history[m]) :
          i < j => DtLE(store'.volume_history[m][i].ts,
                        store'.volume_history[m][j].ts)

\* C36 as stated: in one volume sub-cycle each market id gets exactly one
\* volume sample recorded and is evaluated for a volume spike exactly once,
\* with at most one alert, however many snapshots share the market id; the
\* history stays ordered by timestamp; and the pruning at the end of the
\* cycle removes no sample inside the baseline interval.
C36_AsStated ==
    [][ VolumeCycle =>
           \A m \in {last'.snapshots[i].market_id : i \in 1..Len(last'.snapshots)} :
              OncePerMarket(m) ]_vars

\* the same of the cycles in which no send fails
C36_UnlessSendFails ==
    [][ (VolumeCycle /\ last'.exc = "none") =>
           \A m \in {last'.snapshots[i].market_id : i \in 1..Len(last'.snapshots)} :
              OncePerMarket(m) ]_vars

(***************************************************************************)
(* Properties of the insider flags                                         *)
(***************************************************************************)
\* the wallets the step flags
NewlyFlagged == store'.insider_alerted \ store.insider_alerted

\* the wallets whose statistics the step removes
Removed == Addresses(store.wallet_stats) \ Addresses(store'.wallet_stats)

\* C37: through the trade sub-cycle every address carrying the
\* insider-alerted flag has wallet statistics in the store; a step that
\* removes a wallet's statistics (size eviction, age pruning, a restart)
\* removes its flag with them; and a flag is set only by the trade sub-cycle,
\* for a wallet it has just updated and alerted, which is in the table after
\* that update.
C37_FlaggedWalletsHaveStats ==
    /\ [](store.insider_alerted \subseteq Addresses(store.wallet_stats))
    /\ [][ /\ Removed \cap store'.insider_alerted = {}
           /\ \A w \in NewlyFlagged :
                 /\ last'.handler = "run_whale_check"
                 /\ w \in Addresses(store'.wallet_stats)
                 /\ \E p \in At(last'.trace, "update_wallet", w) :
                       \E q \in At(last'.trace, "send", w) : p < q ]_vars

\* the table is full of flagged wallets of which the sub-cycle has evicted
\* the oldest, flagged before, for a third one
C37_Witness ==
    /\ last.handler = "run_whale_check"
    /\ Len(store.wallet_stats) = MaxWallets
    /\ store.insider_alerted = Addresses(store.wallet_stats)
    /\ "w3" \in store.insider_alerted
    /\ "w1" \notin store.insider_alerted
    /\ \E n \in 1..Len(last.sent) :
          last.sent[n].kind = "insider" /\ last.sent[n].key = "w1"

====
